---- MODULE Spec2Model ----
(***************************************************************************)
(* Model of the FHIR tool servers of this repository:                      *)
(*   fs   src/fhir_server.py                                               *)
(*   mcp  src/fhir_mcp_server.py                                           *)
(*   imm  src/fhir_immunization_server.py                                  *)
(* Each is a separate process; one behaviour of the model is one process.  *)
(* A tool invocation is a coroutine: it runs without interruption from its *)
(* start to its first outbound HTTP request, is suspended while the        *)
(* request is in flight, and runs without interruption from the arrival of *)
(* the outcome to its return (or to its next request).                     *)
(*                                                                         *)
(* Strings are sequences of lexemes: " " is white space, "/" a slash, any  *)
(* other lexeme a run of non-blank characters.                             *)
(***************************************************************************)
EXTENDS Integers, Sequences, FiniteSets, TLC

VARIABLES srv, current_ig_context, implementation_guide_context, tasks,
          fmt_value, fmt_text, fmt_parsed

\* a value handed to a formatter, the text made of it, and that text parsed again
formatting == <<fmt_value, fmt_text, fmt_parsed>>

vars == <<srv, current_ig_context, implementation_guide_context, tasks, formatting>>

\* ---------------------------------------------------------------- bounds
MaxTasks == 2

\* the invocations not yet delivered, in the order they were invoked
Tasks == DOMAIN tasks

Servers == {"fs", "mcp", "imm"}

\* --------------------------------------------------------------- strings
WS == " "

RECURSIVE lstrip(_)
lstrip(s) == IF s # <<>> /\ Head(s) = WS THEN lstrip(Tail(s)) ELSE s

RECURSIVE rstrip(_)
rstrip(s) == IF s # <<>> /\ s[Len(s)] = WS THEN rstrip(SubSeq(s, 1, Len(s) - 1)) ELSE s

\* str.strip()
strip(s) == rstrip(lstrip(s))

\* a key that a dict does not hold / Python's None
Absent == <<"<absent>">>

\* dict.get(key, default)
Get(v, default) == IF v = Absent THEN default ELSE v

\* Python truthiness of a string-or-None value
Truthy(v) == v # Absent /\ v # <<>>

\* "x" in s
Contains(s, x) == \E i \in 1..Len(s) : s[i] = x

\* ------------------------------------------------------------------ JSON
\* A parsed JSON value.  k = "obj" is a dict, of which the fields the code reads
\* are kept (Absent: the key is missing); k = "list" and k = "num" are values
\* that are not dicts.
EmptyDict == [k |-> "obj", resourceType |-> Absent, id |-> Absent, url |-> Absent,
              name |-> Absent, title |-> Absent, status |-> Absent,
              questionnaire |-> Absent, targetStructureMap |-> Absent,
              entry |-> <<>>, issue |-> <<>>]

JList == [EmptyDict EXCEPT !.k = "list"]

JNum == [EmptyDict EXCEPT !.k = "num"]

IsDict(v) == v.k = "obj"

\* A text handed to json.loads / response.json(): "empty" and "space" are blank
\* texts, "bad" is not well-formed JSON, "short" is one character that is not
\* JSON (such as an opening brace), "ok" is the JSON text of val.
Text(syn, val) == [syn |-> syn, val |-> val]

TextBlank(t) == t.syn \in {"empty", "space"}

\* len(text.strip())
TextStripLen(t) ==
    IF TextBlank(t) THEN 0
    ELSE IF t.syn = "short" \/ (t.syn = "ok" /\ t.val.k = "num") THEN 1
    ELSE 2

\* a parser that takes every text for the JSON of its value
Loads_lenient(t) == [ok |-> TRUE, val |-> t.val]

\* json.loads: the value, or JSONDecodeError
Loads(t) == IF t.syn = "ok" THEN [ok |-> TRUE, val |-> t.val] ELSE [ok |-> FALSE, val |-> EmptyDict]

\* one issue of an OperationOutcome
Issue(sev, diag, dtext) == [severity |-> sev, diagnostics |-> diag, detailsText |-> dtext, location |-> <<>>]

\* Python truthiness of a parsed JSON value: {} and [] are false
PyTruthy(v) == IF v.k = "obj" THEN v # EmptyDict ELSE v.k = "num"

\* ------------------------------------------------------- server outcomes
\* What the remote server can do with one request: answer with a status and a
\* body text, or let the request time out, or refuse the connection.
Http(status, body) == [t |-> "http", status |-> status, body |-> body]

Timeout == [t |-> "timeout", status |-> 0, body |-> Text("empty", EmptyDict)]

ConnectFail == [t |-> "connect", status |-> 0, body |-> Text("empty", EmptyDict)]

IG1 == [EmptyDict EXCEPT !.resourceType = <<"ImplementationGuide">>, !.id = <<"ig1">>,
                         !.url = <<"http:", "/", "ig1">>, !.name = <<"One">>]

IG2 == [EmptyDict EXCEPT !.resourceType = <<"ImplementationGuide">>, !.id = <<"ig2">>,
                         !.url = <<"http:", "/", "ig2">>, !.title = <<"Two">>]

IGNoUrl == [IG1 EXCEPT !.url = Absent]

IGNoId == [IG2 EXCEPT !.id = Absent]

\* a Questionnaire carrying the sdc-questionnaire-targetStructureMap extension
Q1 == [EmptyDict EXCEPT !.resourceType = <<"Questionnaire">>, !.id = <<"q1">>,
                        !.targetStructureMap = <<"http:", "/", "map">>]

Created == [EmptyDict EXCEPT !.resourceType = <<"Patient">>, !.id = <<"77">>]

Bundle(entries) == [EmptyDict EXCEPT !.resourceType = <<"Bundle">>, !.entry = entries]

Entry(res) == [resource |-> res]

OperationOutcome(issues) == [EmptyDict EXCEPT !.resourceType = <<"OperationOutcome">>, !.issue = issues]

OO2 == OperationOutcome(<<Issue(<<"error">>, <<"bad code">>, Absent),
                          Issue(<<"warning">>, <<"deprecated field">>, Absent)>>)

OO3 == OperationOutcome(<<Issue(Absent, Absent, <<"see details">>),
                          Issue(<<"fatal">>, Absent, Absent),
                          Issue(<<"information">>, <<"note">>, <<"other text">>)>>)

\* the 2xx answers
Docs == {IG1, IG2, IGNoUrl, IGNoId, Q1, EmptyDict, JList, JNum,
         Bundle(<<>>), Bundle(<<Entry(IG2), Entry(IG1)>>), Bundle(<<Entry(EmptyDict)>>),
         Bundle(<<Entry(Q1)>>)}

\* the non-2xx answers
ErrorAnswers ==
    {Http(400, Text("ok", OO2)), Http(422, Text("ok", OO3)), Http(404, Text("ok", OO2)),
     Http(400, Text("ok", OperationOutcome(<<>>))), Http(409, Text("ok", Created)),
     Http(500, Text("ok", JList)), Http(400, Text("bad", EmptyDict)),
     Http(404, Text("bad", EmptyDict)), Http(409, Text("bad", EmptyDict)),
     Http(422, Text("bad", EmptyDict)), Http(500, Text("bad", EmptyDict)),
     Http(302, Text("empty", EmptyDict))}

Outcomes ==
    {Http(200, Text("ok", d)) : d \in Docs}
    \cup {Http(201, Text("bad", EmptyDict)), Http(204, Text("empty", EmptyDict))}
    \cup ErrorAnswers
    \cup {Timeout, ConnectFail}

\* ------------------------------------------------------------- transport
\* What an awaited request gives the coroutine: a value (exc = "none") or an
\* exception.  status and text are those of the HTTPStatusError's response.
Value(v) == [exc |-> "none", status |-> 200, text |-> Text("empty", EmptyDict), val |-> v]

Raise(exc, status, text) == [exc |-> exc, status |-> status, text |-> text, val |-> EmptyDict]

\* httpx: the exception of a failed transfer
TransferError(o) == IF o.t = "timeout" THEN "TimeoutException" ELSE "ConnectError"

\* response.raise_for_status()
IsSuccess(status) == status >= 200 /\ status < 300

\* response.json()
ResponseJson(o) == IF Loads(o.body).ok THEN Value(Loads(o.body).val)
                   ELSE Raise("JSONDecodeError", o.status, o.body)

DeletedMarker == [EmptyDict EXCEPT !.status = <<"success">>]

\* the transport without its branch for status 204
make_fhir_request_parsing_204(o) ==
    IF o.t # "http" THEN Raise(TransferError(o), 0, o.body)
    ELSE IF ~IsSuccess(o.status) THEN Raise("HTTPStatusError", o.status, o.body)
    ELSE ResponseJson(o)

\* make_fhir_request (fhir_server.py) and _make_fhir_request (fhir_mcp_server.py),
\* from the arrival of the outcome on
make_fhir_request(o) ==
    IF o.t # "http" THEN Raise(TransferError(o), 0, o.body)
    ELSE IF ~IsSuccess(o.status) THEN Raise("HTTPStatusError", o.status, o.body)
    ELSE IF o.status = 204 THEN Value(DeletedMarker)
    ELSE ResponseJson(o)

\* fhir_immunization_server.py: client.get / client.post, raise_for_status, json
client_request(o) ==
    IF o.t # "http" THEN Raise(TransferError(o), 0, o.body)
    ELSE IF ~IsSuccess(o.status) THEN Raise("HTTPStatusError", o.status, o.body)
    ELSE ResponseJson(o)

\* an empty text
NoData == Text("empty", EmptyDict)

\* an outbound request without a JSON body
NoBody == [EmptyDict EXCEPT !.k = "none"]

NoParams == [key \in {} |-> <<>>]

Request(method, server, url, params, data) ==
    [method |-> method, server |-> server, url |-> url, params |-> params, data |-> data]

\* params[key] = value
Put(params, key, value) == (key :> value) @@ params

\* --------------------------------------------------------------- results
\* The string a tool returns is kept as its message (kind), whether it is an
\* error message (err: it starts with the error mark), and the values
\* interpolated into it.
NoResult == [kind |-> "none", err |-> FALSE, parts |-> <<>>, status |-> 0, text |-> NoData,
             exc |-> "none", doc |-> EmptyDict, lines |-> <<>>]

Ok(kind, parts) == [NoResult EXCEPT !.kind = kind, !.parts = parts]

OkDoc(kind, parts, doc) == [NoResult EXCEPT !.kind = kind, !.parts = parts, !.doc = doc]

Err(kind, parts) == [NoResult EXCEPT !.kind = kind, !.err = TRUE, !.parts = parts]

\* f"HTTP Error: {e.response.status_code} - {e.response.text}" and its variants
HttpErr(kind, r) == [NoResult EXCEPT !.kind = kind, !.err = TRUE, !.status = r.status, !.text = r.text]

\* f"Error: {str(e)}"
ExcErr(kind, exc) == [NoResult EXCEPT !.kind = kind, !.err = TRUE, !.exc = exc]

\* an error message listing the issues of an OperationOutcome
IssuesErr(kind, status, lines) == [NoResult EXCEPT !.kind = kind, !.err = TRUE, !.status = status, !.lines = lines]

\* ----------------------------------------------------------------- tasks
\* pc: "await" suspended on a request, "done" returned a string, "raised" an
\* exception left the tool function.  reqs are the requests the invocation has
\* sent and resps the outcomes it has received for them, in order.
Awaiting(op, args, reqs, at, local) ==
    [pc |-> "await", op |-> op, args |-> args, reqs |-> reqs, resps |-> <<>>, at |-> at,
     local |-> local, result |-> NoResult]

Returned(op, args, reqs, result) ==
    [pc |-> "done", op |-> op, args |-> args, reqs |-> reqs, resps |-> <<>>, at |-> "end",
     local |-> EmptyDict, result |-> result]

Propagated(op, args, reqs, exc) ==
    [pc |-> "raised", op |-> op, args |-> args, reqs |-> reqs, resps |-> <<>>, at |-> "end",
     local |-> EmptyDict, result |-> ExcErr("exception", exc)]

\* the operations whose invocations are explored overlapping one another: those
\* that read or write the ImplementationGuide context
ContextOps == {"fhir_set_implementation_guide_context",
               "fhir_get_current_implementation_guide_context", "fhir_create_resource"}

\* a finished invocation is handed to the client before anything else happens:
\* Deliver reads and writes nothing but the finished task
Undelivered == \E u \in Tasks : tasks[u].pc \in {"done", "raised"}

\* an operation outside ContextOps is explored alone
CanStart(op) ==
    /\ ~Undelivered
    /\ Len(tasks) < MaxTasks
    /\ \/ tasks = <<>>
       \/ op \in ContextOps /\ \A u \in Tasks : tasks[u].op \in ContextOps

Resumable(t, server, op) ==
    /\ ~Undelivered
    /\ srv = server
    /\ t \in Tasks
    /\ tasks[t].pc = "await"
    /\ tasks[t].op = op

\* the invocation becomes the youngest task
Start(task) == tasks' = Append(tasks, task)

\* the outcome of the awaited request arrives and the coroutine runs on
Continue(t, o, task) ==
    tasks' = [tasks EXCEPT ![t] = [task EXCEPT !.resps = Append(tasks[t].resps, o)]]

\* ============================================== json.dumps and json.loads
\* The raw_json mode of the formatters is json.dumps(value, indent=2).  To check
\* what it does to a value, values are here trees and texts are sequences of
\* characters: the structural characters, the characters of strings one by one
\* (QUOTE, BACKSLASH, NL for a line feed, EACUTE for a character outside ASCII),
\* and each number, true, false and null as one lexeme.
PyValue(k, atom, items) == [k |-> k, atom |-> atom, items |-> items]

PyNone == PyValue("null", <<>>, <<>>)

PyBool(b) == PyValue(IF b THEN "true" ELSE "false", <<>>, <<>>)

IntLexemes == {"0", "-7"}

FloatLexemes == {"1.0", "2.5"}

PyInt(lexeme) == PyValue("int", <<lexeme>>, <<>>)

PyFloat(lexeme) == PyValue("float", <<lexeme>>, <<>>)

PyStr(chars) == PyValue("str", chars, <<>>)

PyList(items) == PyValue("list", <<>>, items)

\* a dict keeps its keys in insertion order
PyDict(members) == PyValue("dict", <<>>, members)

Member(key, val) == [key |-> key, val |-> val]

WhiteSpace == {"NL", "SP"}

\* indent=2: a line feed and two spaces for each level
NewlineIndent(level) == <<"NL">> \o [i \in 1..(2 * level) |-> "SP"]

\* the string written with every character as it is
encode_char_verbatim(c) == <<c>>

\* ensure_ascii: one character of a string as it is written
encode_char(c) ==
    CASE c = "QUOTE" -> <<"BACKSLASH", "QUOTE">>
      [] c = "BACKSLASH" -> <<"BACKSLASH", "BACKSLASH">>
      [] c = "NL" -> <<"BACKSLASH", "n">>
      [] c = "EACUTE" -> <<"BACKSLASH", "u00e9">>
      [] OTHER -> <<c>>

RECURSIVE encode_chars(_)
encode_chars(s) == IF s = <<>> THEN <<>> ELSE encode_char(Head(s)) \o encode_chars(Tail(s))

encode_basestring_ascii(s) == <<"QUOTE">> \o encode_chars(s) \o <<"QUOTE">>

RECURSIVE dumps(_, _)
RECURSIVE dumps_items(_, _, _)
RECURSIVE dumps_members(_, _, _)
\* json.dumps(value, indent=2), at nesting depth level
dumps(v, level) ==
    CASE v.k \in {"null", "true", "false"} -> <<v.k>>
      [] v.k \in {"int", "float"} -> v.atom
      [] v.k = "str" -> encode_basestring_ascii(v.atom)
      [] v.k = "list" ->
           IF v.items = <<>> THEN <<"[", "]">>
           ELSE <<"[">> \o dumps_items(v.items, 1, level + 1) \o NewlineIndent(level) \o <<"]">>
      [] v.k = "dict" ->
           IF v.items = <<>> THEN <<"{", "}">>
           ELSE <<"{">> \o dumps_members(v.items, 1, level + 1) \o NewlineIndent(level) \o <<"}">>

dumps_items(items, i, level) ==
    IF i > Len(items) THEN <<>>
    ELSE (IF i > 1 THEN <<",">> ELSE <<>>) \o NewlineIndent(level) \o dumps(items[i], level)
             \o dumps_items(items, i + 1, level)

dumps_members(members, i, level) ==
    IF i > Len(members) THEN <<>>
    ELSE (IF i > 1 THEN <<",">> ELSE <<>>) \o NewlineIndent(level)
             \o encode_basestring_ascii(members[i].key) \o <<":", "SP">>
             \o dumps(members[i].val, level) \o dumps_members(members, i + 1, level)

\* what a parsing step gives: a value and the text after it, or JSONDecodeError
Parsed(val, rest) == [ok |-> TRUE, val |-> val, rest |-> rest]

JSONDecodeError == [ok |-> FALSE, val |-> PyNone, rest |-> <<>>]

RECURSIVE skip_whitespace(_)
skip_whitespace(t) ==
    IF t # <<>> /\ Head(t) \in WhiteSpace THEN skip_whitespace(Tail(t)) ELSE t

\* the character a backslash escape stands for
decode_escape(c) ==
    CASE c = "QUOTE" -> "QUOTE"
      [] c = "BACKSLASH" -> "BACKSLASH"
      [] c = "n" -> "NL"
      [] c = "u00e9" -> "EACUTE"
      [] OTHER -> "invalid"

RECURSIVE scanstring(_, _)
\* the characters up to the closing quote; a bare line feed is a control character
scanstring(t, acc) ==
    IF t = <<>> THEN JSONDecodeError
    ELSE IF Head(t) = "QUOTE" THEN Parsed(acc, Tail(t))
    ELSE IF Head(t) = "NL" THEN JSONDecodeError
    ELSE IF Head(t) = "BACKSLASH" THEN
        IF Tail(t) = <<>> \/ decode_escape(t[2]) = "invalid" THEN JSONDecodeError
        ELSE scanstring(Tail(Tail(t)), Append(acc, decode_escape(t[2])))
    ELSE scanstring(Tail(t), Append(acc, Head(t)))

RECURSIVE scan_once(_)
RECURSIVE parse_array(_, _)
RECURSIVE parse_object(_, _)
\* one value at the head of the text
scan_once(t) ==
    IF t = <<>> THEN JSONDecodeError
    ELSE CASE Head(t) = "null" -> Parsed(PyNone, Tail(t))
           [] Head(t) = "true" -> Parsed(PyBool(TRUE), Tail(t))
           [] Head(t) = "false" -> Parsed(PyBool(FALSE), Tail(t))
           [] Head(t) \in IntLexemes -> Parsed(PyInt(Head(t)), Tail(t))
           [] Head(t) \in FloatLexemes -> Parsed(PyFloat(Head(t)), Tail(t))
           [] Head(t) = "QUOTE" ->
                LET s == scanstring(Tail(t), <<>>)
                IN  IF s.ok THEN Parsed(PyStr(s.val), s.rest) ELSE JSONDecodeError
           [] Head(t) = "[" ->
                IF skip_whitespace(Tail(t)) # <<>> /\ Head(skip_whitespace(Tail(t))) = "]"
                THEN Parsed(PyList(<<>>), Tail(skip_whitespace(Tail(t))))
                ELSE parse_array(skip_whitespace(Tail(t)), <<>>)
           [] Head(t) = "{" ->
                IF skip_whitespace(Tail(t)) # <<>> /\ Head(skip_whitespace(Tail(t))) = "}"
                THEN Parsed(PyDict(<<>>), Tail(skip_whitespace(Tail(t))))
                ELSE parse_object(skip_whitespace(Tail(t)), <<>>)
           [] OTHER -> JSONDecodeError

\* the items of an array, t standing at an item
parse_array(t, acc) ==
    LET item == scan_once(t)
        after == skip_whitespace(item.rest)
    IN  IF ~item.ok \/ after = <<>> THEN JSONDecodeError
        ELSE IF Head(after) = "]" THEN Parsed(PyList(Append(acc, item.val)), Tail(after))
        ELSE IF Head(after) = "," THEN parse_array(skip_whitespace(Tail(after)), Append(acc, item.val))
        ELSE JSONDecodeError

\* dict(pairs): a key met again keeps its place and takes the later value
SetMember(members, key, val) ==
    IF \E i \in 1..Len(members) : members[i].key = key
    THEN [i \in 1..Len(members) |->
            IF members[i].key = key THEN Member(key, val) ELSE members[i]]
    ELSE Append(members, Member(key, val))

\* the members of an object, t standing at a key
parse_object(t, acc) ==
    IF t = <<>> \/ Head(t) # "QUOTE" THEN JSONDecodeError
    ELSE LET key == scanstring(Tail(t), <<>>)
             colon == skip_whitespace(key.rest)
             item == scan_once(skip_whitespace(Tail(colon)))
             after == skip_whitespace(item.rest)
         IN  IF ~key.ok \/ colon = <<>> \/ Head(colon) # ":" THEN JSONDecodeError
             ELSE IF ~item.ok \/ after = <<>> THEN JSONDecodeError
             ELSE IF Head(after) = "}"
             THEN Parsed(PyDict(SetMember(acc, key.val, item.val)), Tail(after))
             ELSE IF Head(after) = ","
             THEN parse_object(skip_whitespace(Tail(after)), SetMember(acc, key.val, item.val))
             ELSE JSONDecodeError

\* json.loads(text)
loads(text) ==
    LET r == scan_once(skip_whitespace(text))
    IN  IF r.ok /\ skip_whitespace(r.rest) = <<>> THEN Parsed(r.val, <<>>) ELSE JSONDecodeError

\* the text has not been parsed yet
Pending == [ok |-> FALSE, val |-> PyNone, rest |-> <<"pending">>]

\* ------------------------------------------------------------------ tasks
NoContext == [id |-> <<>>, url |-> <<>>, name |-> <<>>]

Init ==
    /\ srv \in Servers
    /\ current_ig_context = NoContext
    /\ implementation_guide_context = EmptyDict
    /\ tasks = <<>>
    /\ fmt_value = PyNone
    /\ fmt_text = <<>>
    /\ fmt_parsed = Pending

\* the framework hands the outcome of a finished invocation to the client
Deliver(t) ==
    /\ t \in Tasks
    /\ tasks[t].pc \in {"done", "raised"}
    /\ tasks' = SubSeq(tasks, 1, t - 1) \o SubSeq(tasks, t + 1, Len(tasks))
    /\ UNCHANGED <<formatting, srv, current_ig_context, implementation_guide_context>>

\* pydantic: str_strip_whitespace, then min_length
Validated(raw) == strip(raw)

\* a check that takes only the empty string for blank
IsBlank_unstripped(s) == s = <<>>

\* not value.strip()
IsBlank(s) == strip(s) = <<>>

\* a tool is invoked: it runs to its first request, or to its return
Invoke(server, op, task) ==
    /\ srv = server
    /\ CanStart(op)
    /\ Start(task)
    /\ UNCHANGED <<formatting, srv, current_ig_context, implementation_guide_context>>

\* the request sent a second time along with the first
Ask_repeated(op, args, method, url, params, data, at, local) ==
    Awaiting(op, args, <<Request(method, "fhir", url, params, data),
                         Request(method, "fhir", url, params, data)>>, at, local)

\* the coroutine is suspended on one request to the FHIR server
Ask(op, args, method, url, params, data, at, local) ==
    Awaiting(op, args, <<Request(method, "fhir", url, params, data)>>, at, local)

\* the key set whatever the condition
PutIf_always(params, cond, key, value) == Put(params, key, value)

\* if cond: params[key] = value
PutIf(params, cond, key, value) == IF cond THEN Put(params, key, value) ELSE params

MinLength(s, n) == Len(s) >= n

\* ------------------------------------------------- OperationOutcome lines
\* issue.get("diagnostics", issue.get("details", {}).get("text", "Unknown error"))
IssueMessage(issue) == Get(issue.diagnostics, Get(issue.detailsText, <<"Unknown error">>))

\* issue.get("diagnostics", "Unknown error")
IssueDiagnostics(issue) == Get(issue.diagnostics, <<"Unknown error">>)

\* issue.get("severity", "error")
IssueSeverity(issue) == Get(issue.severity, <<"error">>)

\* one "- ..." line of an error message; tag = Absent: the line has no [severity] tag
Line(tag, msg) == [tag |-> tag, msg |-> msg]

\* f"[{severity}] {msg}" for each issue
TaggedLines(issues) == [i \in 1..Len(issues) |-> Line(IssueSeverity(issues[i]), IssueMessage(issues[i]))]

\* the messages alone, diagnostics with the details.text fallback
MessageLines(issues) == [i \in 1..Len(issues) |-> Line(Absent, IssueMessage(issues[i]))]

\* the diagnostics alone
DiagnosticsLines(issues) == [i \in 1..Len(issues) |-> Line(Absent, IssueDiagnostics(issues[i]))]

\* ------------------------------------------- fhir_mcp_server.py: errors
FHIR_SERVER_URL == <<"http:", "/", "localhost:8080", "/", "fhir">>

\* the normalizer with error_body.get(...) outside its try: an error body that
\* is not a JSON object makes it raise
_handle_fhir_error_unguarded(r) ==
    IF r.exc = "HTTPStatusError" THEN
        IF ~Loads(r.text).ok \/ ~IsDict(Loads(r.text).val)
        THEN ExcErr("raised", "AttributeError")
        ELSE IF Loads(r.text).val.resourceType = <<"OperationOutcome">>
        THEN IssuesErr("fhir_error", r.status, TaggedLines(Loads(r.text).val.issue))
        ELSE HttpErr("server_returned_status", r)
    ELSE IF r.exc = "TimeoutException" THEN Err("timed_out", <<>>)
    ELSE IF r.exc = "ConnectError" THEN Err("could_not_connect", <<FHIR_SERVER_URL>>)
    ELSE ExcErr("unexpected_error", r.exc)

\* _handle_fhir_error: the text for an exception
_handle_fhir_error(r) ==
    IF r.exc = "HTTPStatusError" THEN
        IF Loads(r.text).ok /\ IsDict(Loads(r.text).val)
              /\ Loads(r.text).val.resourceType = <<"OperationOutcome">>
        THEN IssuesErr("fhir_error", r.status, TaggedLines(Loads(r.text).val.issue))
        ELSE IF r.status = 404 THEN Err("resource_not_found", <<>>)
        ELSE IF r.status = 400 THEN HttpErr("bad_request", r)
        ELSE IF r.status = 422 THEN HttpErr("unprocessable_entity", r)
        ELSE IF r.status = 409 THEN [Err("conflict", <<>>) EXCEPT !.status = r.status]
        ELSE HttpErr("server_returned_status", r)
    ELSE IF r.exc = "TimeoutException" THEN Err("timed_out", <<>>)
    ELSE IF r.exc = "ConnectError" THEN Err("could_not_connect", <<FHIR_SERVER_URL>>)
    ELSE ExcErr("unexpected_error", r.exc)

\* ------------------------------------------- fhir_server.py: shared clauses
\* except httpx.HTTPStatusError / except Exception, as most tools have them
fs_except(r) == IF r.exc = "HTTPStatusError" THEN HttpErr("http_error", r) ELSE ExcErr("error", r.exc)

\* json.dumps(value) for response_format "json", else a summary built with .get
fs_render(kind, value, response_format) ==
    IF response_format = "json" THEN OkDoc("json", <<>>, value)
    ELSE IF ~IsDict(value) THEN ExcErr("error", "AttributeError")
    ELSE OkDoc(kind, <<>>, value)

\* the except httpx.HTTPStatusError clause of create, update, apply and transform:
\* json.loads(error_text) and error_json.get(...) with only JSONDecodeError caught
fs_outcome_error(op, me, r, kind, lines) ==
    IF ~Loads(r.text).ok THEN Returned(op, me.args, me.reqs, HttpErr("http_error", r))
    ELSE IF ~IsDict(Loads(r.text).val) THEN Propagated(op, me.args, me.reqs, "AttributeError")
    ELSE IF Loads(r.text).val.resourceType = <<"OperationOutcome">>
    THEN Returned(op, me.args, me.reqs, IssuesErr(kind, 0, lines))
    ELSE Returned(op, me.args, me.reqs, HttpErr("http_error", r))

\* a tool with one request whose answer is rendered
fs_simple_resume(t, o, op, kind) ==
    LET me == tasks[t]
        r == make_fhir_request(o)
    IN  /\ Resumable(t, "fs", op)
        /\ Continue(t, o, Returned(op, me.args, me.reqs,
             IF r.exc # "none" THEN fs_except(r)
             ELSE fs_render(kind, r.val, me.args.response_format)))
        /\ UNCHANGED <<formatting, srv, current_ig_context, implementation_guide_context>>

\* a tool that reads a resource by id, or searches it by url and takes the first entry
fs_lookup_resume(t, o, op, kind, url) ==
    LET me == tasks[t]
        r == make_fhir_request(o)
    IN  /\ Resumable(t, "fs", op)
        /\ Continue(t, o, Returned(op, me.args, me.reqs,
             IF r.exc # "none" THEN fs_except(r)
             ELSE IF me.at = "search" /\ ~IsDict(r.val) THEN ExcErr("error", "AttributeError")
             ELSE IF me.at = "search" /\ r.val.entry = <<>> THEN Err("none_found_with_url", <<url>>)
             ELSE fs_render(kind, IF me.at = "read" THEN r.val ELSE r.val.entry[1].resource,
                            me.args.response_format)))
        /\ UNCHANGED <<formatting, srv, current_ig_context, implementation_guide_context>>

\* --------------------------------- fhir_server.py: ImplementationGuide context
\* the context built from the ImplementationGuide the server returned
ContextOf(ig) == [id |-> Get(ig.id, <<>>), url |-> Get(ig.url, <<>>),
                  name |-> Get(ig.name, Get(ig.title, <<>>))]

fs_fhir_set_implementation_guide_context(implementation_guide_id, implementation_guide_url) ==
    LET op == "fhir_set_implementation_guide_context"
        args == [implementation_guide_id |-> implementation_guide_id,
                 implementation_guide_url |-> implementation_guide_url]
    IN  Invoke("fs", op,
             IF IsBlank(implementation_guide_id) /\ IsBlank(implementation_guide_url)
             THEN Returned(op, args, <<>>, Err("id_or_url_required", <<>>))
             ELSE IF ~IsBlank(implementation_guide_id)
             THEN Ask(op, args, "GET", <<"ImplementationGuide", "/">> \o implementation_guide_id,
                      NoParams, NoBody, "read", EmptyDict)
             ELSE Ask(op, args, "GET", <<"ImplementationGuide">>,
                      Put(NoParams, "url", implementation_guide_url), NoBody, "search", EmptyDict))

\* the setter keeping a context that is already set
fs_fhir_set_implementation_guide_context_resume_first_wins(t, o) ==
    LET op == "fhir_set_implementation_guide_context"
        me == tasks[t]
        r == make_fhir_request(o)
        found == me.at = "read" \/ (IsDict(r.val) /\ r.val.entry # <<>>)
        ig == IF me.at = "read" THEN r.val ELSE r.val.entry[1].resource
    IN  /\ Resumable(t, "fs", op)
        /\ IF r.exc # "none" THEN
              /\ Continue(t, o, Returned(op, me.args, me.reqs, fs_except(r)))
              /\ UNCHANGED current_ig_context
           ELSE IF ~IsDict(r.val) THEN
              /\ Continue(t, o, Returned(op, me.args, me.reqs, ExcErr("error", "AttributeError")))
              /\ UNCHANGED current_ig_context
           ELSE IF ~found THEN
              /\ Continue(t, o, Returned(op, me.args, me.reqs,
                                      Err("none_found_with_url", <<me.args.implementation_guide_url>>)))
              /\ UNCHANGED current_ig_context
           ELSE IF ~IsDict(ig) THEN
              /\ Continue(t, o, Returned(op, me.args, me.reqs, ExcErr("error", "AttributeError")))
              /\ UNCHANGED current_ig_context
           ELSE
              /\ current_ig_context' = IF current_ig_context = NoContext THEN ContextOf(ig)
                                      ELSE current_ig_context
              /\ Continue(t, o, Returned(op, me.args, me.reqs,
                                      Ok("context_set", <<ContextOf(ig).id, ContextOf(ig).name,
                                                          ContextOf(ig).url>>)))
        /\ UNCHANGED <<formatting, srv, implementation_guide_context>>

fs_fhir_set_implementation_guide_context_resume(t, o) ==
    LET op == "fhir_set_implementation_guide_context"
        me == tasks[t]
        r == make_fhir_request(o)
        found == me.at = "read" \/ (IsDict(r.val) /\ r.val.entry # <<>>)
        ig == IF me.at = "read" THEN r.val ELSE r.val.entry[1].resource
    IN  /\ Resumable(t, "fs", op)
        /\ IF r.exc # "none" THEN
              /\ Continue(t, o, Returned(op, me.args, me.reqs, fs_except(r)))
              /\ UNCHANGED current_ig_context
           ELSE IF ~IsDict(r.val) THEN
              /\ Continue(t, o, Returned(op, me.args, me.reqs, ExcErr("error", "AttributeError")))
              /\ UNCHANGED current_ig_context
           ELSE IF ~found THEN
              /\ Continue(t, o, Returned(op, me.args, me.reqs,
                                      Err("none_found_with_url", <<me.args.implementation_guide_url>>)))
              /\ UNCHANGED current_ig_context
           ELSE IF ~IsDict(ig) THEN
              /\ Continue(t, o, Returned(op, me.args, me.reqs, ExcErr("error", "AttributeError")))
              /\ UNCHANGED current_ig_context
           ELSE
              /\ current_ig_context' = ContextOf(ig)
              /\ Continue(t, o, Returned(op, me.args, me.reqs,
                                      Ok("context_set", <<ContextOf(ig).id, ContextOf(ig).name,
                                                          ContextOf(ig).url>>)))
        /\ UNCHANGED <<formatting, srv, implementation_guide_context>>

\* the text of fhir_get_current_implementation_guide_context for a context
fs_context_report(context) ==
    IF ~Truthy(context.id) THEN Ok("no_context_set", <<>>)
    ELSE Ok("current_context", <<context.id, context.name, context.url>>)

\* the reader of the context resetting it after the read
fs_fhir_get_current_implementation_guide_context_resetting ==
    LET op == "fhir_get_current_implementation_guide_context"
    IN  /\ srv = "fs"
        /\ CanStart(op)
        /\ Start(Returned(op, NoParams, <<>>, fs_context_report(current_ig_context)))
        /\ current_ig_context' = [id |-> <<>>, url |-> <<>>, name |-> <<>>]
        /\ UNCHANGED <<formatting, srv, implementation_guide_context>>

fs_fhir_get_current_implementation_guide_context ==
    LET op == "fhir_get_current_implementation_guide_context"
    IN  Invoke("fs", op, Returned(op, NoParams, <<>>, fs_context_report(current_ig_context)))

fs_fhir_get_implementation_guide(implementation_guide_id, implementation_guide_url, response_format) ==
    LET op == "fhir_get_implementation_guide"
        args == [implementation_guide_id |-> implementation_guide_id,
                 implementation_guide_url |-> implementation_guide_url,
                 response_format |-> response_format]
    IN  Invoke("fs", op,
             IF IsBlank(implementation_guide_id) /\ IsBlank(implementation_guide_url)
             THEN Returned(op, args, <<>>, Err("id_or_url_required", <<>>))
             ELSE IF ~IsBlank(implementation_guide_id)
             THEN Ask(op, args, "GET", <<"ImplementationGuide", "/">> \o implementation_guide_id,
                      NoParams, NoBody, "read", EmptyDict)
             ELSE Ask(op, args, "GET", <<"ImplementationGuide">>,
                      Put(NoParams, "url", implementation_guide_url), NoBody, "search", EmptyDict))

fs_fhir_get_implementation_guide_resume(t, o) ==
    fs_lookup_resume(t, o, "fhir_get_implementation_guide", "implementation_guide",
                     tasks[t].args.implementation_guide_url)

\* the count arguments are left at their defaults
Count50 == <<"50">>

Count100 == <<"100">>

fs_fhir_list_implementation_guides(name, response_format) ==
    LET op == "fhir_list_implementation_guides"
        args == [name |-> name, count |-> Count50, response_format |-> response_format]
    IN  Invoke("fs", op,
             Ask(op, args, "GET", <<"ImplementationGuide">>,
                 PutIf(Put(NoParams, "_count", Count50), ~IsBlank(name), "name:contains", name),
                 NoBody, "list", EmptyDict))

fs_fhir_list_implementation_guides_resume(t, o) ==
    fs_simple_resume(t, o, "fhir_list_implementation_guides", "bundle_summary")

\* ------------------------------------------ fhir_server.py: PlanDefinition
fs_fhir_list_plan_definitions(status, title, response_format) ==
    LET op == "fhir_list_plan_definitions"
        args == [status |-> status, title |-> title, count |-> Count100,
                 response_format |-> response_format]
    IN  Invoke("fs", op,
             Ask(op, args, "GET", <<"PlanDefinition">>,
                 PutIf(PutIf(Put(NoParams, "_count", Count100), ~IsBlank(status), "status", status),
                       ~IsBlank(title), "title:contains", title),
                 NoBody, "list", EmptyDict))

fs_fhir_list_plan_definitions_resume(t, o) ==
    fs_simple_resume(t, o, "fhir_list_plan_definitions", "bundle_summary")

fs_fhir_get_plan_definition(plan_definition_id, response_format) ==
    LET op == "fhir_get_plan_definition"
        args == [plan_definition_id |-> plan_definition_id, response_format |-> response_format]
    IN  Invoke("fs", op,
             IF IsBlank(plan_definition_id)
             THEN Returned(op, args, <<>>, Err("plan_definition_id_required", <<>>))
             ELSE Ask(op, args, "GET", <<"PlanDefinition", "/">> \o plan_definition_id,
                      NoParams, NoBody, "read", EmptyDict))

fs_fhir_get_plan_definition_resume(t, o) ==
    fs_simple_resume(t, o, "fhir_get_plan_definition", "plan_definition")

fs_fhir_apply_plan_definition(plan_definition_id, subject, encounter, practitioner, organization) ==
    LET op == "fhir_apply_plan_definition"
        args == [plan_definition_id |-> plan_definition_id, subject |-> subject,
                 encounter |-> encounter, practitioner |-> practitioner,
                 organization |-> organization]
    IN  Invoke("fs", op,
             IF IsBlank(plan_definition_id)
             THEN Returned(op, args, <<>>, Err("plan_definition_id_required", <<>>))
             ELSE IF IsBlank(subject)
             THEN Returned(op, args, <<>>, Err("subject_required", <<>>))
             ELSE Ask(op, args, "POST", <<"PlanDefinition", "/">> \o plan_definition_id \o <<"/", "$apply">>,
                      PutIf(PutIf(PutIf(Put(NoParams, "subject", subject),
                                        ~IsBlank(encounter), "encounter", encounter),
                                  ~IsBlank(practitioner), "practitioner", practitioner),
                            ~IsBlank(organization), "organization", organization),
                      NoBody, "apply", EmptyDict))

fs_fhir_apply_plan_definition_resume(t, o) ==
    LET op == "fhir_apply_plan_definition"
        me == tasks[t]
        r == make_fhir_request(o)
    IN  /\ Resumable(t, "fs", op)
        /\ Continue(t, o,
             IF r.exc = "HTTPStatusError"
             THEN fs_outcome_error(op, me, r, "operation_error", MessageLines(Loads(r.text).val.issue))
             ELSE IF r.exc # "none" THEN Returned(op, me.args, me.reqs, ExcErr("error", r.exc))
             ELSE Returned(op, me.args, me.reqs, OkDoc("json", <<>>, r.val)))
        /\ UNCHANGED <<formatting, srv, current_ig_context, implementation_guide_context>>

\* ---------------------------------------- fhir_server.py: generic resources
fs_fhir_get_resource(resource_type, resource_id, response_format) ==
    LET op == "fhir_get_resource"
        args == [resource_type |-> resource_type, resource_id |-> resource_id,
                 response_format |-> response_format]
    IN  Invoke("fs", op,
             IF IsBlank(resource_type)
             THEN Returned(op, args, <<>>, Err("resource_type_required", <<>>))
             ELSE IF IsBlank(resource_id)
             THEN Returned(op, args, <<>>, Err("resource_id_required", <<>>))
             ELSE Ask(op, args, "GET", resource_type \o <<"/">> \o resource_id,
                      NoParams, NoBody, "read", EmptyDict))

fs_fhir_get_resource_resume(t, o) ==
    fs_simple_resume(t, o, "fhir_get_resource", "resource_summary")

\* the first index of x in s, 0 when s does not hold it
IndexOf(s, x) ==
    IF Contains(s, x) THEN CHOOSE i \in 1..Len(s) : s[i] = x /\ \A j \in 1..(i - 1) : s[j] # x
    ELSE 0

\* a key of the search parameters (one lexeme)
Key(s) == IF s = <<>> THEN "" ELSE s[1]

\* for param in search_params.split("&"): if "=" in param: key, value = param.split("=", 1)
RECURSIVE ParseQuery(_, _)
ParseQuery(s, params) ==
    IF s = <<>> THEN params
    ELSE LET amp == IF Contains(s, "&") THEN IndexOf(s, "&") ELSE Len(s) + 1
             param == SubSeq(s, 1, amp - 1)
             eq == IndexOf(param, "=")
         IN  ParseQuery(SubSeq(s, amp + 1, Len(s)),
                        IF eq = 0 THEN params
                        ELSE Put(params, Key(SubSeq(param, 1, eq - 1)),
                                 SubSeq(param, eq + 1, Len(param))))

fs_fhir_search_resources(resource_type, search_params, response_format) ==
    LET op == "fhir_search_resources"
        args == [resource_type |-> resource_type, search_params |-> search_params,
                 count |-> Count50, response_format |-> response_format]
    IN  Invoke("fs", op,
             IF IsBlank(resource_type)
             THEN Returned(op, args, <<>>, Err("resource_type_required", <<>>))
             ELSE Ask(op, args, "GET", resource_type,
                      IF IsBlank(search_params) THEN Put(NoParams, "_count", Count50)
                      ELSE ParseQuery(search_params, Put(NoParams, "_count", Count50)),
                      NoBody, "list", EmptyDict))

fs_fhir_search_resources_resume(t, o) ==
    fs_simple_resume(t, o, "fhir_search_resources", "bundle_summary")

\* the query parameters of the POST: the context's url as profile, when it has one
\* the profile attached whenever the context has an id
fs_create_params_by_id(context) ==
    IF Truthy(context.id) THEN Put(NoParams, "profile", context.url) ELSE NoParams

\* params = {}; if _current_ig_context.get("url"): params["profile"] = ...
fs_create_params(context) ==
    IF Truthy(context.url) THEN Put(NoParams, "profile", context.url) ELSE NoParams

fs_fhir_create_resource(resource_json) ==
    LET op == "fhir_create_resource"
        args == [resource_json |-> resource_json]
        resource == Loads(resource_json).val
    IN  Invoke("fs", op,
             IF TextBlank(resource_json)
             THEN Returned(op, args, <<>>, Err("resource_json_required", <<>>))
             ELSE IF ~Loads(resource_json).ok
             THEN Returned(op, args, <<>>, Err("invalid_json", <<>>))
             ELSE IF ~IsDict(resource)
             THEN Propagated(op, args, <<>>, "AttributeError")
             ELSE IF ~Truthy(resource.resourceType)
             THEN Returned(op, args, <<>>, Err("resourceType_required", <<>>))
             ELSE Ask(op, args, "POST", resource.resourceType,
                      fs_create_params(current_ig_context), resource, "post", resource))

\* the create reading the context again once its POST is answered
fs_fhir_create_resource_resume_rereading(t, o) ==
    LET op == "fhir_create_resource"
        me == tasks[t]
        r == make_fhir_request(o)
        reqs == <<[me.reqs[1] EXCEPT !.params = fs_create_params(current_ig_context)]>>
    IN  /\ Resumable(t, "fs", op)
        /\ Continue(t, o,
             IF r.exc = "HTTPStatusError"
             THEN fs_outcome_error(op, me, r, "validation_error", TaggedLines(Loads(r.text).val.issue))
             ELSE IF r.exc # "none" THEN Returned(op, me.args, reqs, ExcErr("error", r.exc))
             ELSE IF ~IsDict(r.val) THEN Returned(op, me.args, reqs, ExcErr("error", "AttributeError"))
             ELSE Returned(op, me.args, reqs,
                           OkDoc("created", <<me.local.resourceType, Get(r.val.id, <<"Unknown">>)>>, r.val)))
        /\ UNCHANGED <<formatting, srv, current_ig_context, implementation_guide_context>>

fs_fhir_create_resource_resume(t, o) ==
    LET op == "fhir_create_resource"
        me == tasks[t]
        r == make_fhir_request(o)
    IN  /\ Resumable(t, "fs", op)
        /\ Continue(t, o,
             IF r.exc = "HTTPStatusError"
             THEN fs_outcome_error(op, me, r, "validation_error", TaggedLines(Loads(r.text).val.issue))
             ELSE IF r.exc # "none" THEN Returned(op, me.args, me.reqs, ExcErr("error", r.exc))
             ELSE IF ~IsDict(r.val) THEN Returned(op, me.args, me.reqs, ExcErr("error", "AttributeError"))
             ELSE Returned(op, me.args, me.reqs,
                           OkDoc("created", <<me.local.resourceType, Get(r.val.id, <<"Unknown">>)>>, r.val)))
        /\ UNCHANGED <<formatting, srv, current_ig_context, implementation_guide_context>>

\* an update that forces the id and leaves the body's resourceType as it is
fs_update_body_id_only(resource, resource_type, resource_id) == [resource EXCEPT !.id = resource_id]

\* resource["id"] = resource_id; resource["resourceType"] = resource_type when it differs
fs_update_body(resource, resource_type, resource_id) ==
    [resource EXCEPT !.id = resource_id,
                     !.resourceType = IF resource.resourceType # resource_type THEN resource_type
                                      ELSE resource.resourceType]

fs_fhir_update_resource(resource_type, resource_id, resource_json) ==
    LET op == "fhir_update_resource"
        args == [resource_type |-> resource_type, resource_id |-> resource_id,
                 resource_json |-> resource_json]
        resource == Loads(resource_json).val
    IN  Invoke("fs", op,
             IF IsBlank(resource_type)
             THEN Returned(op, args, <<>>, Err("resource_type_required", <<>>))
             ELSE IF IsBlank(resource_id)
             THEN Returned(op, args, <<>>, Err("resource_id_required", <<>>))
             ELSE IF TextBlank(resource_json)
             THEN Returned(op, args, <<>>, Err("resource_json_required", <<>>))
             ELSE IF ~Loads(resource_json).ok
             THEN Returned(op, args, <<>>, Err("invalid_json", <<>>))
             ELSE IF ~IsDict(resource)
             THEN Propagated(op, args, <<>>, "TypeError")
             ELSE Ask(op, args, "PUT", resource_type \o <<"/">> \o resource_id, NoParams,
                      fs_update_body(resource, resource_type, resource_id), "put", EmptyDict))

fs_fhir_update_resource_resume(t, o) ==
    LET op == "fhir_update_resource"
        me == tasks[t]
        r == make_fhir_request(o)
    IN  /\ Resumable(t, "fs", op)
        /\ Continue(t, o,
             IF r.exc = "HTTPStatusError"
             THEN fs_outcome_error(op, me, r, "validation_error", DiagnosticsLines(Loads(r.text).val.issue))
             ELSE IF r.exc # "none" THEN Returned(op, me.args, me.reqs, ExcErr("error", r.exc))
             ELSE Returned(op, me.args, me.reqs,
                           OkDoc("updated", <<me.args.resource_type, me.args.resource_id>>, r.val)))
        /\ UNCHANGED <<formatting, srv, current_ig_context, implementation_guide_context>>

fs_fhir_delete_resource(resource_type, resource_id) ==
    LET op == "fhir_delete_resource"
        args == [resource_type |-> resource_type, resource_id |-> resource_id]
    IN  Invoke("fs", op,
             IF IsBlank(resource_type)
             THEN Returned(op, args, <<>>, Err("resource_type_required", <<>>))
             ELSE IF IsBlank(resource_id)
             THEN Returned(op, args, <<>>, Err("resource_id_required", <<>>))
             ELSE Ask(op, args, "DELETE", resource_type \o <<"/">> \o resource_id,
                      NoParams, NoBody, "delete", EmptyDict))

fs_fhir_delete_resource_resume(t, o) ==
    LET op == "fhir_delete_resource"
        me == tasks[t]
        r == make_fhir_request(o)
    IN  /\ Resumable(t, "fs", op)
        /\ Continue(t, o, Returned(op, me.args, me.reqs,
             IF r.exc # "none" THEN fs_except(r)
             ELSE Ok("deleted", <<me.args.resource_type, me.args.resource_id>>)))
        /\ UNCHANGED <<formatting, srv, current_ig_context, implementation_guide_context>>

\* ------------------------------------------- fhir_server.py: terminology
fs_fhir_list_valuesets(name, url, response_format) ==
    LET op == "fhir_list_valuesets"
        args == [name |-> name, url |-> url, count |-> Count50, response_format |-> response_format]
    IN  Invoke("fs", op,
             Ask(op, args, "GET", <<"ValueSet">>,
                 PutIf(PutIf(Put(NoParams, "_count", Count50), ~IsBlank(name), "name:contains", name),
                       ~IsBlank(url), "url:contains", url),
                 NoBody, "list", EmptyDict))

fs_fhir_list_valuesets_resume(t, o) ==
    fs_simple_resume(t, o, "fhir_list_valuesets", "bundle_summary")

\* the expansion called by URL whenever a parameter is given
fs_fhir_expand_valueset_by_url(valueset_id, valueset_url, filter, response_format) ==
    LET op == "fhir_expand_valueset"
        args == [valueset_id |-> valueset_id, valueset_url |-> valueset_url, filter |-> filter,
                 count |-> Count100, response_format |-> response_format]
    IN  Invoke("fs", op,
             IF IsBlank(valueset_id) /\ IsBlank(valueset_url)
             THEN Returned(op, args, <<>>, Err("id_or_url_required", <<>>))
             ELSE Ask(op, args, "GET", <<"ValueSet", "/", "$expand">>,
                      PutIf(Put(Put(NoParams, "url", valueset_url), "count", Count100),
                            ~IsBlank(filter), "filter", filter),
                      NoBody, "expand", EmptyDict))

fs_fhir_expand_valueset(valueset_id, valueset_url, filter, response_format) ==
    LET op == "fhir_expand_valueset"
        args == [valueset_id |-> valueset_id, valueset_url |-> valueset_url, filter |-> filter,
                 count |-> Count100, response_format |-> response_format]
    IN  Invoke("fs", op,
             IF IsBlank(valueset_id) /\ IsBlank(valueset_url)
             THEN Returned(op, args, <<>>, Err("id_or_url_required", <<>>))
             ELSE IF ~IsBlank(valueset_id)
             THEN Ask(op, args, "GET", <<"ValueSet", "/">> \o valueset_id \o <<"/", "$expand">>,
                      PutIf(Put(NoParams, "_count", Count100), ~IsBlank(filter), "filter", filter),
                      NoBody, "expand", EmptyDict)
             ELSE Ask(op, args, "GET", <<"ValueSet", "/", "$expand">>,
                      PutIf(Put(Put(NoParams, "url", valueset_url), "count", Count100),
                            ~IsBlank(filter), "filter", filter),
                      NoBody, "expand", EmptyDict))

fs_fhir_expand_valueset_resume(t, o) ==
    fs_simple_resume(t, o, "fhir_expand_valueset", "expansion")

fs_fhir_list_codesystems(name, url, response_format) ==
    LET op == "fhir_list_codesystems"
        args == [name |-> name, url |-> url, count |-> Count50, response_format |-> response_format]
    IN  Invoke("fs", op,
             Ask(op, args, "GET", <<"CodeSystem">>,
                 PutIf(PutIf(Put(NoParams, "_count", Count50), ~IsBlank(name), "name:contains", name),
                       ~IsBlank(url), "url:contains", url),
                 NoBody, "list", EmptyDict))

fs_fhir_list_codesystems_resume(t, o) ==
    fs_simple_resume(t, o, "fhir_list_codesystems", "bundle_summary")

fs_fhir_lookup_code(system, code, version) ==
    LET op == "fhir_lookup_code"
        args == [system |-> system, code |-> code, version |-> version]
    IN  Invoke("fs", op,
             IF IsBlank(system) THEN Returned(op, args, <<>>, Err("system_required", <<>>))
             ELSE IF IsBlank(code) THEN Returned(op, args, <<>>, Err("code_required", <<>>))
             ELSE Ask(op, args, "GET", <<"CodeSystem", "/", "$lookup">>,
                      PutIf(Put(Put(NoParams, "system", system), "code", code),
                            ~IsBlank(version), "version", version),
                      NoBody, "lookup", EmptyDict))

fs_fhir_lookup_code_resume(t, o) ==
    LET op == "fhir_lookup_code"
        me == tasks[t]
        r == make_fhir_request(o)
    IN  /\ Resumable(t, "fs", op)
        /\ Continue(t, o, Returned(op, me.args, me.reqs,
             IF r.exc # "none" THEN fs_except(r)
             ELSE fs_render("code_lookup", r.val, "markdown")))
        /\ UNCHANGED <<formatting, srv, current_ig_context, implementation_guide_context>>

\* ------------------------------------------ fhir_server.py: Questionnaire
fs_fhir_get_questionnaire(questionnaire_id, questionnaire_url, response_format) ==
    LET op == "fhir_get_questionnaire"
        args == [questionnaire_id |-> questionnaire_id, questionnaire_url |-> questionnaire_url,
                 response_format |-> response_format]
    IN  Invoke("fs", op,
             IF IsBlank(questionnaire_id) /\ IsBlank(questionnaire_url)
             THEN Returned(op, args, <<>>, Err("id_or_url_required", <<>>))
             ELSE IF ~IsBlank(questionnaire_id)
             THEN Ask(op, args, "GET", <<"Questionnaire", "/">> \o questionnaire_id,
                      NoParams, NoBody, "read", EmptyDict)
             ELSE Ask(op, args, "GET", <<"Questionnaire">>,
                      Put(NoParams, "url", questionnaire_url), NoBody, "search", EmptyDict))

fs_fhir_get_questionnaire_resume(t, o) ==
    fs_lookup_resume(t, o, "fhir_get_questionnaire", "questionnaire", tasks[t].args.questionnaire_url)

fs_fhir_list_questionnaires(title, status, response_format) ==
    LET op == "fhir_list_questionnaires"
        args == [title |-> title, status |-> status, count |-> Count50,
                 response_format |-> response_format]
    IN  Invoke("fs", op,
             Ask(op, args, "GET", <<"Questionnaire">>,
                 PutIf(PutIf(Put(NoParams, "_count", Count50), ~IsBlank(title), "title:contains", title),
                       ~IsBlank(status), "status", status),
                 NoBody, "list", EmptyDict))

fs_fhir_list_questionnaires_resume(t, o) ==
    fs_simple_resume(t, o, "fhir_list_questionnaires", "bundle_summary")

\* questionnaire_url.startswith("http")
StartsWithHttp(s) == s # <<>> /\ Head(s) \in {"http:", "https:"}

\* questionnaire_url.split("/")[-1]
RECURSIVE LastSegment(_)
LastSegment(s) == IF Contains(s, "/") THEN LastSegment(SubSeq(s, IndexOf(s, "/") + 1, Len(s))) ELSE s

\* extract_target_structure_map
extract_target_structure_map(questionnaire) == Get(questionnaire.targetStructureMap, <<>>)

\* the POST of the QuestionnaireResponse sent to the primary FHIR server
TransformRequest_primary(map_url, qr) ==
    Request("POST", "fhir", <<"StructureMap", "/", "$transform?source=">> \o map_url, NoParams, qr)

\* the POST of the QuestionnaireResponse to the Matchbox server
TransformRequest(map_url, qr) ==
    Request("POST", "matchbox", <<"StructureMap", "/", "$transform?source=">> \o map_url, NoParams, qr)

fs_fhir_transform_questionnaire_response(questionnaire_response_json, structure_map_url) ==
    LET op == "fhir_transform_questionnaire_response"
        args == [questionnaire_response_json |-> questionnaire_response_json,
                 structure_map_url |-> structure_map_url]
        qr == Loads(questionnaire_response_json).val
        map_url == strip(structure_map_url)
        questionnaire_url == Get(qr.questionnaire, <<>>)
    IN  Invoke("fs", op,
             IF TextBlank(questionnaire_response_json)
             THEN Returned(op, args, <<>>, Err("questionnaire_response_json_required", <<>>))
             ELSE IF ~Loads(questionnaire_response_json).ok
             THEN Returned(op, args, <<>>, Err("invalid_json", <<>>))
             ELSE IF ~IsDict(qr)
             THEN Propagated(op, args, <<>>, "AttributeError")
             ELSE IF qr.resourceType # <<"QuestionnaireResponse">>
             THEN Returned(op, args, <<>>, Err("must_be_questionnaire_response", <<>>))
             ELSE IF map_url # <<>>
             THEN Awaiting(op, args, <<TransformRequest(map_url, qr)>>, "transform", qr)
             ELSE IF questionnaire_url = <<>>
             THEN Returned(op, args, <<>>, Err("no_structure_map_url", <<>>))
             ELSE IF Contains(questionnaire_url, "/") /\ ~StartsWithHttp(questionnaire_url)
             THEN Ask(op, args, "GET", <<"Questionnaire", "/">> \o LastSegment(questionnaire_url),
                      NoParams, NoBody, "read", qr)
             ELSE Ask(op, args, "GET", <<"Questionnaire">>,
                      Put(NoParams, "url", questionnaire_url), NoBody, "search", qr))

fs_fhir_transform_questionnaire_response_resume(t, o) ==
    LET op == "fhir_transform_questionnaire_response"
        me == tasks[t]
        r == make_fhir_request(o)
        questionnaire == IF me.at = "read" THEN r.val ELSE r.val.entry[1].resource
        map_url == extract_target_structure_map(questionnaire)
    IN  /\ Resumable(t, "fs", op)
        /\ Continue(t, o,
             IF r.exc = "HTTPStatusError"
             THEN fs_outcome_error(op, me, r, "transform_error", DiagnosticsLines(Loads(r.text).val.issue))
             ELSE IF r.exc # "none" THEN Returned(op, me.args, me.reqs, ExcErr("error", r.exc))
             ELSE IF me.at = "transform"
             THEN Returned(op, me.args, me.reqs, OkDoc("transform_successful", <<>>, r.val))
             ELSE IF me.at = "search" /\ ~IsDict(r.val)
             THEN Returned(op, me.args, me.reqs, ExcErr("error", "AttributeError"))
             ELSE IF me.at = "search" /\ r.val.entry = <<>>
             THEN Returned(op, me.args, me.reqs,
                           Err("could_not_find_questionnaire", <<me.local.questionnaire>>))
             ELSE IF ~IsDict(questionnaire)
             THEN Returned(op, me.args, me.reqs, ExcErr("error", "AttributeError"))
             ELSE IF map_url = <<>>
             THEN Returned(op, me.args, me.reqs, Err("no_structure_map_url", <<>>))
             ELSE Awaiting(op, me.args, Append(me.reqs, TransformRequest(map_url, me.local)),
                           "transform", me.local))
        /\ UNCHANGED <<formatting, srv, current_ig_context, implementation_guide_context>>

\* -------------------------------------- fhir_server.py: server capability
fs_fhir_get_server_capability ==
    LET op == "fhir_get_server_capability"
    IN  Invoke("fs", op, Ask(op, NoParams, "GET", <<"metadata">>, NoParams, NoBody, "read", EmptyDict))

fs_fhir_get_server_capability_resume(t, o) ==
    LET op == "fhir_get_server_capability"
        me == tasks[t]
        r == make_fhir_request(o)
    IN  /\ Resumable(t, "fs", op)
        /\ Continue(t, o, Returned(op, me.args, me.reqs,
             IF r.exc # "none" THEN fs_except(r)
             ELSE fs_render("capability", r.val, "markdown")))
        /\ UNCHANGED <<formatting, srv, current_ig_context, implementation_guide_context>>

\* -------------------------------------- fhir_mcp_server.py: shared clauses
\* the tool's input model refuses the arguments: the framework reports the
\* validation error as the text of the invocation, and the tool body never runs
Refused(op, args) == Returned(op, args, <<>>, Err("input_validation_error", <<>>))

\* a required field: str_strip_whitespace, then min_length=1
Missing(raw) == ~MinLength(Validated(raw), 1)

\* except Exception as e: return _handle_fhir_error(e), for an exception of the tool body
mcp_unexpected(exc) == _handle_fhir_error(Raise(exc, 0, NoData))

\* json.dumps(result) for ResponseFormat.JSON, else a text built with .get
mcp_render(kind, value, response_format) ==
    IF response_format = "json" THEN OkDoc("json", <<>>, value)
    ELSE IF ~IsDict(value) THEN mcp_unexpected("AttributeError")
    ELSE OkDoc(kind, <<>>, value)

\* a tool with one request whose answer is rendered
mcp_simple_resume(t, o, op, kind) ==
    LET me == tasks[t]
        r == make_fhir_request(o)
    IN  /\ Resumable(t, "mcp", op)
        /\ Continue(t, o, Returned(op, me.args, me.reqs,
             IF r.exc # "none" THEN _handle_fhir_error(r)
             ELSE mcp_render(kind, r.val, me.args.response_format)))
        /\ UNCHANGED <<formatting, srv, current_ig_context, implementation_guide_context>>

\* a tool that lists a Bundle: entries = result.get("entry", []); if not entries: ...
mcp_list_resume(t, o, op, none_found) ==
    LET me == tasks[t]
        r == make_fhir_request(o)
    IN  /\ Resumable(t, "mcp", op)
        /\ Continue(t, o, Returned(op, me.args, me.reqs,
             IF r.exc # "none" THEN _handle_fhir_error(r)
             ELSE IF ~IsDict(r.val) THEN mcp_unexpected("AttributeError")
             ELSE IF r.val.entry = <<>> THEN Ok(none_found, <<>>)
             ELSE mcp_render("bundle_listing", r.val, me.args.response_format)))
        /\ UNCHANGED <<formatting, srv, current_ig_context, implementation_guide_context>>

\* ---------------------------------------- fhir_mcp_server.py: PlanDefinition
mcp_fhir_list_plan_definitions(raw_status, raw_title, response_format) ==
    LET op == "fhir_list_plan_definitions"
        args == [status |-> raw_status, title |-> raw_title, count |-> Count100,
                 response_format |-> response_format]
        status == Validated(raw_status)
        title == Validated(raw_title)
    IN  Invoke("mcp", op,
             Ask(op, args, "GET", <<"PlanDefinition">>,
                 PutIf(PutIf(Put(NoParams, "_count", Count100), ~IsBlank(status), "status", strip(status)),
                       ~IsBlank(title), "title:contains", strip(title)),
                 NoBody, "list", EmptyDict))

mcp_fhir_list_plan_definitions_resume(t, o) ==
    mcp_list_resume(t, o, "fhir_list_plan_definitions", "no_plan_definitions_found")

mcp_fhir_get_plan_definition(raw_id, response_format) ==
    LET op == "fhir_get_plan_definition"
        args == [plan_definition_id |-> raw_id, response_format |-> response_format]
        plan_definition_id == Validated(raw_id)
    IN  Invoke("mcp", op,
             IF Missing(raw_id) THEN Refused(op, args)
             ELSE Ask(op, args, "GET", <<"PlanDefinition", "/">> \o plan_definition_id,
                      NoParams, NoBody, "read", EmptyDict))

mcp_fhir_get_plan_definition_resume(t, o) ==
    mcp_simple_resume(t, o, "fhir_get_plan_definition", "plan_definition")

mcp_fhir_apply_plan_definition(raw_id, raw_subject, raw_encounter, raw_practitioner, raw_organization) ==
    LET op == "fhir_apply_plan_definition"
        args == [plan_definition_id |-> raw_id, subject |-> raw_subject,
                 encounter |-> raw_encounter, practitioner |-> raw_practitioner,
                 organization |-> raw_organization]
        plan_definition_id == Validated(raw_id)
        subject == Validated(raw_subject)
        encounter == Validated(raw_encounter)
        practitioner == Validated(raw_practitioner)
        organization == Validated(raw_organization)
    IN  Invoke("mcp", op,
             IF Missing(raw_id) \/ Missing(raw_subject) THEN Refused(op, args)
             ELSE Ask(op, args, "GET", <<"PlanDefinition", "/">> \o plan_definition_id \o <<"/", "$apply">>,
                      PutIf(PutIf(PutIf(Put(NoParams, "subject", subject),
                                        ~IsBlank(encounter), "encounter", strip(encounter)),
                                  ~IsBlank(practitioner), "practitioner", strip(practitioner)),
                            ~IsBlank(organization), "organization", strip(organization)),
                      NoBody, "apply", EmptyDict))

mcp_fhir_apply_plan_definition_resume(t, o) ==
    LET op == "fhir_apply_plan_definition"
        me == tasks[t]
        r == make_fhir_request(o)
    IN  /\ Resumable(t, "mcp", op)
        /\ Continue(t, o, Returned(op, me.args, me.reqs,
             IF r.exc # "none" THEN _handle_fhir_error(r)
             ELSE mcp_render("care_plan", r.val, "markdown")))
        /\ UNCHANGED <<formatting, srv, current_ig_context, implementation_guide_context>>

\* ----------------------------------------- fhir_mcp_server.py: resources
mcp_fhir_create_resource(raw_json) ==
    LET op == "fhir_create_resource"
        args == [resource_json |-> raw_json]
        resource == Loads(raw_json).val
    IN  Invoke("mcp", op,
             IF TextStripLen(raw_json) < 2 THEN Refused(op, args)
             ELSE IF ~Loads(raw_json).ok
             THEN Returned(op, args, <<>>, Err("invalid_json", <<>>))
             ELSE IF ~IsDict(resource)
             THEN Returned(op, args, <<>>, mcp_unexpected("AttributeError"))
             ELSE IF ~Truthy(resource.resourceType)
             THEN Returned(op, args, <<>>, Err("resourceType_required", <<>>))
             ELSE Ask(op, args, "POST", resource.resourceType, NoParams, resource, "post", resource))

mcp_fhir_create_resource_resume(t, o) ==
    LET op == "fhir_create_resource"
        me == tasks[t]
        r == make_fhir_request(o)
    IN  /\ Resumable(t, "mcp", op)
        /\ Continue(t, o, Returned(op, me.args, me.reqs,
             IF r.exc = "JSONDecodeError" THEN Err("invalid_json", <<>>)
             ELSE IF r.exc # "none" THEN _handle_fhir_error(r)
             ELSE IF ~IsDict(r.val) THEN mcp_unexpected("AttributeError")
             ELSE OkDoc("created", <<me.local.resourceType, Get(r.val.id, <<"N/A">>)>>, r.val)))
        /\ UNCHANGED <<formatting, srv, current_ig_context, implementation_guide_context>>

\* resource["id"] = params.resource_id; resource["resourceType"] = params.resource_type
mcp_update_body(resource, resource_type, resource_id) ==
    [resource EXCEPT !.id = resource_id, !.resourceType = resource_type]

mcp_fhir_update_resource(raw_type, raw_id, raw_json) ==
    LET op == "fhir_update_resource"
        args == [resource_type |-> raw_type, resource_id |-> raw_id, resource_json |-> raw_json]
        resource_type == Validated(raw_type)
        resource_id == Validated(raw_id)
        resource == Loads(raw_json).val
    IN  Invoke("mcp", op,
             IF Missing(raw_type) \/ Missing(raw_id) \/ TextStripLen(raw_json) < 2 THEN Refused(op, args)
             ELSE IF ~Loads(raw_json).ok
             THEN Returned(op, args, <<>>, Err("invalid_json", <<>>))
             ELSE IF ~IsDict(resource)
             THEN Returned(op, args, <<>>, mcp_unexpected("AttributeError"))
             ELSE IF Truthy(resource.resourceType) /\ resource.resourceType # resource_type
             THEN Returned(op, args, <<>>,
                           Err("resource_type_mismatch", <<resource.resourceType, resource_type>>))
             ELSE Ask(op, args, "PUT", resource_type \o <<"/">> \o resource_id, NoParams,
                      mcp_update_body(resource, resource_type, resource_id), "put", EmptyDict))

mcp_fhir_update_resource_resume(t, o) ==
    LET op == "fhir_update_resource"
        me == tasks[t]
        r == make_fhir_request(o)
    IN  /\ Resumable(t, "mcp", op)
        /\ Continue(t, o, Returned(op, me.args, me.reqs,
             IF r.exc = "JSONDecodeError" THEN Err("invalid_json", <<>>)
             ELSE IF r.exc # "none" THEN _handle_fhir_error(r)
             ELSE OkDoc("updated", <<Validated(me.args.resource_type), Validated(me.args.resource_id)>>,
                        r.val)))
        /\ UNCHANGED <<formatting, srv, current_ig_context, implementation_guide_context>>

mcp_fhir_get_resource(raw_type, raw_id, response_format) ==
    LET op == "fhir_get_resource"
        args == [resource_type |-> raw_type, resource_id |-> raw_id,
                 response_format |-> response_format]
    IN  Invoke("mcp", op,
             IF Missing(raw_type) \/ Missing(raw_id) THEN Refused(op, args)
             ELSE Ask(op, args, "GET", Validated(raw_type) \o <<"/">> \o Validated(raw_id),
                      NoParams, NoBody, "read", EmptyDict))

mcp_fhir_get_resource_resume(t, o) ==
    mcp_simple_resume(t, o, "fhir_get_resource", "resource_summary")

mcp_fhir_search_resources(raw_type, raw_search_params, response_format) ==
    LET op == "fhir_search_resources"
        args == [resource_type |-> raw_type, search_params |-> raw_search_params,
                 count |-> Count50, response_format |-> response_format]
        search_params == Validated(raw_search_params)
    IN  Invoke("mcp", op,
             IF Missing(raw_type) THEN Refused(op, args)
             ELSE Ask(op, args, "GET", Validated(raw_type),
                      IF IsBlank(search_params) THEN Put(NoParams, "_count", Count50)
                      ELSE ParseQuery(search_params, Put(NoParams, "_count", Count50)),
                      NoBody, "list", EmptyDict))

mcp_fhir_search_resources_resume(t, o) ==
    mcp_list_resume(t, o, "fhir_search_resources", "no_resources_found")

mcp_fhir_delete_resource(raw_type, raw_id) ==
    LET op == "fhir_delete_resource"
        args == [resource_type |-> raw_type, resource_id |-> raw_id]
    IN  Invoke("mcp", op,
             IF Missing(raw_type) \/ Missing(raw_id) THEN Refused(op, args)
             ELSE Ask(op, args, "DELETE", Validated(raw_type) \o <<"/">> \o Validated(raw_id),
                      NoParams, NoBody, "delete", EmptyDict))

mcp_fhir_delete_resource_resume(t, o) ==
    LET op == "fhir_delete_resource"
        me == tasks[t]
        r == make_fhir_request(o)
    IN  /\ Resumable(t, "mcp", op)
        /\ Continue(t, o, Returned(op, me.args, me.reqs,
             IF r.exc # "none" THEN _handle_fhir_error(r)
             ELSE Ok("deleted", <<Validated(me.args.resource_type), Validated(me.args.resource_id)>>)))
        /\ UNCHANGED <<formatting, srv, current_ig_context, implementation_guide_context>>

\* ----------------------------------------- fhir_mcp_server.py: terminology
mcp_fhir_lookup_code(raw_system, raw_code, raw_version) ==
    LET op == "fhir_lookup_code"
        args == [system |-> raw_system, code |-> raw_code, version |-> raw_version]
        version == Validated(raw_version)
    IN  Invoke("mcp", op,
             IF Missing(raw_system) \/ Missing(raw_code) THEN Refused(op, args)
             ELSE Ask(op, args, "GET", <<"CodeSystem", "/", "$lookup">>,
                      PutIf(Put(Put(NoParams, "system", Validated(raw_system)), "code", Validated(raw_code)),
                            ~IsBlank(version), "version", strip(version)),
                      NoBody, "lookup", EmptyDict))

mcp_fhir_lookup_code_resume(t, o) ==
    LET op == "fhir_lookup_code"
        me == tasks[t]
        r == make_fhir_request(o)
    IN  /\ Resumable(t, "mcp", op)
        /\ Continue(t, o, Returned(op, me.args, me.reqs,
             IF r.exc # "none" THEN _handle_fhir_error(r)
             ELSE mcp_render("code_lookup", r.val, "markdown")))
        /\ UNCHANGED <<formatting, srv, current_ig_context, implementation_guide_context>>

mcp_fhir_expand_valueset(raw_id, raw_url, raw_filter, response_format) ==
    LET op == "fhir_expand_valueset"
        args == [valueset_id |-> raw_id, valueset_url |-> raw_url, filter |-> raw_filter,
                 count |-> Count100, response_format |-> response_format]
        valueset_id == Validated(raw_id)
        valueset_url == Validated(raw_url)
        filter == Validated(raw_filter)
    IN  Invoke("mcp", op,
             IF ~IsBlank(valueset_id)
             THEN Ask(op, args, "GET", <<"ValueSet", "/">> \o strip(valueset_id) \o <<"/", "$expand">>,
                      PutIf(Put(NoParams, "count", Count100), ~IsBlank(filter), "filter", strip(filter)),
                      NoBody, "expand", EmptyDict)
             ELSE IF ~IsBlank(valueset_url)
             THEN Ask(op, args, "GET", <<"ValueSet", "/", "$expand">>,
                      PutIf(Put(Put(NoParams, "url", strip(valueset_url)), "count", Count100),
                            ~IsBlank(filter), "filter", strip(filter)),
                      NoBody, "expand", EmptyDict)
             ELSE Returned(op, args, <<>>, Err("id_or_url_required", <<>>)))

mcp_fhir_expand_valueset_resume(t, o) ==
    mcp_simple_resume(t, o, "fhir_expand_valueset", "expansion")

mcp_fhir_list_codesystems(raw_name, raw_url, response_format) ==
    LET op == "fhir_list_codesystems"
        args == [name |-> raw_name, url |-> raw_url, count |-> Count50,
                 response_format |-> response_format]
        name == Validated(raw_name)
        url == Validated(raw_url)
    IN  Invoke("mcp", op,
             Ask(op, args, "GET", <<"CodeSystem">>,
                 PutIf(PutIf(Put(NoParams, "_count", Count50), ~IsBlank(name), "name:contains", strip(name)),
                       ~IsBlank(url), "url:contains", strip(url)),
                 NoBody, "list", EmptyDict))

mcp_fhir_list_codesystems_resume(t, o) ==
    mcp_list_resume(t, o, "fhir_list_codesystems", "no_codesystems_found")

mcp_fhir_list_valuesets(raw_name, raw_url, response_format) ==
    LET op == "fhir_list_valuesets"
        args == [name |-> raw_name, url |-> raw_url, count |-> Count50,
                 response_format |-> response_format]
        name == Validated(raw_name)
        url == Validated(raw_url)
    IN  Invoke("mcp", op,
             Ask(op, args, "GET", <<"ValueSet">>,
                 PutIf(PutIf(Put(NoParams, "_count", Count50), ~IsBlank(name), "name:contains", strip(name)),
                       ~IsBlank(url), "url:contains", strip(url)),
                 NoBody, "list", EmptyDict))

mcp_fhir_list_valuesets_resume(t, o) ==
    mcp_list_resume(t, o, "fhir_list_valuesets", "no_valuesets_found")

\* ------------------------------ fhir_mcp_server.py: ImplementationGuide
mcp_fhir_list_implementation_guides(raw_name, response_format) ==
    LET op == "fhir_list_implementation_guides"
        args == [name |-> raw_name, count |-> Count50, response_format |-> response_format]
        name == Validated(raw_name)
    IN  Invoke("mcp", op,
             Ask(op, args, "GET", <<"ImplementationGuide">>,
                 PutIf(Put(NoParams, "_count", Count50), ~IsBlank(name), "name:contains", strip(name)),
                 NoBody, "list", EmptyDict))

mcp_fhir_list_implementation_guides_resume(t, o) ==
    mcp_list_resume(t, o, "fhir_list_implementation_guides", "no_implementation_guides_found")

mcp_fhir_get_implementation_guide(raw_id, raw_url, response_format) ==
    LET op == "fhir_get_implementation_guide"
        args == [implementation_guide_id |-> raw_id, implementation_guide_url |-> raw_url,
                 response_format |-> response_format]
        implementation_guide_id == Validated(raw_id)
        implementation_guide_url == Validated(raw_url)
    IN  Invoke("mcp", op,
             IF ~IsBlank(implementation_guide_id)
             THEN Ask(op, args, "GET", <<"ImplementationGuide", "/">> \o strip(implementation_guide_id),
                      NoParams, NoBody, "read", EmptyDict)
             ELSE IF ~IsBlank(implementation_guide_url)
             THEN Ask(op, args, "GET", <<"ImplementationGuide">>,
                      Put(NoParams, "url", strip(implementation_guide_url)), NoBody, "search", EmptyDict)
             ELSE Returned(op, args, <<>>, Err("id_or_url_required", <<>>)))

mcp_fhir_get_implementation_guide_resume(t, o) ==
    LET op == "fhir_get_implementation_guide"
        me == tasks[t]
        r == make_fhir_request(o)
    IN  /\ Resumable(t, "mcp", op)
        /\ Continue(t, o, Returned(op, me.args, me.reqs,
             IF r.exc # "none" THEN _handle_fhir_error(r)
             ELSE IF me.at = "search" /\ ~IsDict(r.val) THEN mcp_unexpected("AttributeError")
             ELSE IF me.at = "search" /\ r.val.entry = <<>>
             THEN Err("none_found_with_url", <<Validated(me.args.implementation_guide_url)>>)
             ELSE mcp_render("implementation_guide",
                             IF me.at = "read" THEN r.val ELSE r.val.entry[1].resource,
                             me.args.response_format)))
        /\ UNCHANGED <<formatting, srv, current_ig_context, implementation_guide_context>>

\* a clear that leaves the context as it is
ClearedContext_kept == implementation_guide_context

\* _implementation_guide_context = {}
ClearedContext == EmptyDict

mcp_fhir_set_implementation_guide_context(raw_id, raw_url) ==
    LET op == "fhir_set_implementation_guide_context"
        args == [implementation_guide_id |-> raw_id, implementation_guide_url |-> raw_url]
        implementation_guide_id == Validated(raw_id)
        implementation_guide_url == Validated(raw_url)
    IN  /\ srv = "mcp"
        /\ CanStart(op)
        /\ IF ~IsBlank(implementation_guide_id) THEN
              /\ Start( Ask(op, args, "GET", <<"ImplementationGuide", "/">> \o strip(implementation_guide_id),
                            NoParams, NoBody, "read", EmptyDict))
              /\ UNCHANGED implementation_guide_context
           ELSE IF ~IsBlank(implementation_guide_url) THEN
              /\ Start( Ask(op, args, "GET", <<"ImplementationGuide">>,
                            Put(NoParams, "url", strip(implementation_guide_url)), NoBody,
                            "search", EmptyDict))
              /\ UNCHANGED implementation_guide_context
           ELSE
              /\ implementation_guide_context' = ClearedContext
              /\ Start( Returned(op, args, <<>>, Ok("context_cleared", <<>>)))
        /\ UNCHANGED <<formatting, srv, current_ig_context>>

mcp_fhir_set_implementation_guide_context_resume(t, o) ==
    LET op == "fhir_set_implementation_guide_context"
        me == tasks[t]
        r == make_fhir_request(o)
        found == me.at = "read" \/ (IsDict(r.val) /\ r.val.entry # <<>>)
        result == IF me.at = "read" THEN r.val ELSE r.val.entry[1].resource
    IN  /\ Resumable(t, "mcp", op)
        /\ IF r.exc # "none" THEN
              /\ Continue(t, o, Returned(op, me.args, me.reqs, _handle_fhir_error(r)))
              /\ UNCHANGED implementation_guide_context
           ELSE IF me.at = "search" /\ ~IsDict(r.val) THEN
              /\ Continue(t, o, Returned(op, me.args, me.reqs, mcp_unexpected("AttributeError")))
              /\ UNCHANGED implementation_guide_context
           ELSE IF ~found THEN
              /\ Continue(t, o, Returned(op, me.args, me.reqs,
                     Err("none_found_with_url", <<Validated(me.args.implementation_guide_url)>>)))
              /\ UNCHANGED implementation_guide_context
           ELSE
              /\ implementation_guide_context' = result
              /\ Continue(t, o, Returned(op, me.args, me.reqs,
                     IF ~IsDict(result) THEN mcp_unexpected("AttributeError")
                     ELSE Ok("context_set", <<Get(result.name, Get(result.title, <<"Untitled">>)),
                                              Get(result.id, <<"N/A">>), Get(result.url, <<"N/A">>)>>)))
        /\ UNCHANGED <<formatting, srv, current_ig_context>>

\* the outcome of fhir_get_current_implementation_guide_context for a context
mcp_context_report(op, context) ==
    IF ~PyTruthy(context) THEN Returned(op, NoParams, <<>>, Ok("no_context_set", <<>>))
    ELSE IF ~IsDict(context) THEN Propagated(op, NoParams, <<>>, "AttributeError")
    ELSE Returned(op, NoParams, <<>>,
                  Ok("current_context", <<Get(context.name, Get(context.title, <<"Untitled">>)),
                                          Get(context.id, <<"N/A">>), Get(context.url, <<"N/A">>)>>))

mcp_fhir_get_current_implementation_guide_context ==
    LET op == "fhir_get_current_implementation_guide_context"
    IN  Invoke("mcp", op, mcp_context_report(op, implementation_guide_context))

\* ----------------------------------- fhir_mcp_server.py: server capability
mcp_fhir_get_server_capability ==
    LET op == "fhir_get_server_capability"
    IN  Invoke("mcp", op, Ask(op, NoParams, "GET", <<"metadata">>, NoParams, NoBody, "read", EmptyDict))

mcp_fhir_get_server_capability_resume(t, o) ==
    LET op == "fhir_get_server_capability"
        me == tasks[t]
        r == make_fhir_request(o)
    IN  /\ Resumable(t, "mcp", op)
        /\ Continue(t, o, Returned(op, me.args, me.reqs,
             IF r.exc # "none" THEN _handle_fhir_error(r)
             ELSE mcp_render("capability", r.val, "markdown")))
        /\ UNCHANGED <<formatting, srv, current_ig_context, implementation_guide_context>>

\* -------------------------------- fhir_immunization_server.py: shared clauses
\* f"FHIR Server Error: {e.response.status_code}"
StatusErr(kind, r) == [NoResult EXCEPT !.kind = kind, !.err = TRUE, !.status = r.status]

\* a text built from the answer with .get
imm_render(kind, value) ==
    IF ~IsDict(value) THEN ExcErr("error", "AttributeError") ELSE OkDoc(kind, <<>>, value)

\* entries = bundle.get("entry", []); if not entries: return "No ... found"
imm_list(kind, none_found, parts, value) ==
    IF ~IsDict(value) THEN ExcErr("error", "AttributeError")
    ELSE IF value.entry = <<>> THEN Ok(none_found, parts)
    ELSE OkDoc(kind, <<>>, value)

\* from the arrival of the outcome on: except httpx.HTTPStatusError gives
\* http_error, except Exception gives f"Error: {str(e)}", else the rendered answer
imm_resume(t, o, op, http_error, rendered) ==
    LET me == tasks[t]
        r == client_request(o)
    IN  /\ Resumable(t, "imm", op)
        /\ Continue(t, o, Returned(op, me.args, me.reqs,
             IF r.exc = "HTTPStatusError" THEN http_error
             ELSE IF r.exc # "none" THEN ExcErr("error", r.exc)
             ELSE rendered))
        /\ UNCHANGED <<formatting, srv, current_ig_context, implementation_guide_context>>

\* ---------------------------- fhir_immunization_server.py: PlanDefinition
imm_list_plan_definitions(status, title) ==
    LET op == "list_plan_definitions"
        args == [status |-> status, title |-> title]
    IN  Invoke("imm", op,
             Ask(op, args, "GET", <<"/", "PlanDefinition">>,
                 PutIf(PutIf(Put(NoParams, "_count", Count100), ~IsBlank(status), "status", strip(status)),
                       ~IsBlank(title), "title:contains", strip(title)),
                 NoBody, "list", EmptyDict))

imm_list_plan_definitions_resume(t, o) ==
    imm_resume(t, o, "list_plan_definitions", HttpErr("fhir_server_error", client_request(o)),
               imm_list("plan_definitions", "no_plan_definitions_found", <<>>, client_request(o).val))

imm_get_plan_definition(plan_definition_id) ==
    LET op == "get_plan_definition"
        args == [plan_definition_id |-> plan_definition_id]
    IN  Invoke("imm", op,
             IF IsBlank(plan_definition_id)
             THEN Returned(op, args, <<>>, Err("plan_definition_id_required", <<>>))
             ELSE Ask(op, args, "GET", <<"/", "PlanDefinition", "/">> \o strip(plan_definition_id),
                      NoParams, NoBody, "read", EmptyDict))

imm_get_plan_definition_resume(t, o) ==
    imm_resume(t, o, "get_plan_definition", HttpErr("fhir_server_error", client_request(o)),
               imm_render("plan_definition", client_request(o).val))

imm_apply_plan_definition(plan_definition_id, subject, encounter, practitioner) ==
    LET op == "apply_plan_definition"
        args == [plan_definition_id |-> plan_definition_id, subject |-> subject,
                 encounter |-> encounter, practitioner |-> practitioner]
    IN  Invoke("imm", op,
             IF IsBlank(plan_definition_id)
             THEN Returned(op, args, <<>>, Err("plan_definition_id_required", <<>>))
             ELSE IF IsBlank(subject)
             THEN Returned(op, args, <<>>, Err("subject_required", <<>>))
             ELSE Ask(op, args, "GET",
                      <<"/", "PlanDefinition", "/">> \o strip(plan_definition_id) \o <<"/", "$apply">>,
                      PutIf(PutIf(Put(NoParams, "subject", strip(subject)),
                                  ~IsBlank(encounter), "encounter", strip(encounter)),
                            ~IsBlank(practitioner), "practitioner", strip(practitioner)),
                      NoBody, "apply", EmptyDict))

imm_apply_plan_definition_resume(t, o) ==
    imm_resume(t, o, "apply_plan_definition", HttpErr("fhir_server_error_details", client_request(o)),
               imm_render("apply_result", client_request(o).val))

imm_get_plan_definition_data_requirements(plan_definition_id) ==
    LET op == "get_plan_definition_data_requirements"
        args == [plan_definition_id |-> plan_definition_id]
    IN  Invoke("imm", op,
             IF IsBlank(plan_definition_id)
             THEN Returned(op, args, <<>>, Err("plan_definition_id_required", <<>>))
             ELSE Ask(op, args, "GET",
                      <<"/", "PlanDefinition", "/">> \o strip(plan_definition_id)
                          \o <<"/", "$data-requirements">>,
                      NoParams, NoBody, "read", EmptyDict))

imm_get_plan_definition_data_requirements_resume(t, o) ==
    imm_resume(t, o, "get_plan_definition_data_requirements",
               IF client_request(o).status = 404 THEN Err("data_requirements_not_supported", <<>>)
               ELSE HttpErr("fhir_server_error", client_request(o)),
               imm_render("data_requirements", client_request(o).val))

\* ----------------------------------- fhir_immunization_server.py: patients
imm_search_patients(name, identifier, birthdate) ==
    LET op == "search_patients"
        args == [name |-> name, identifier |-> identifier, birthdate |-> birthdate]
    IN  Invoke("imm", op,
             Ask(op, args, "GET", <<"/", "Patient">>,
                 PutIf(PutIf(PutIf(Put(NoParams, "_count", Count50), ~IsBlank(name), "name", strip(name)),
                             ~IsBlank(identifier), "identifier", strip(identifier)),
                       ~IsBlank(birthdate), "birthdate", strip(birthdate)),
                 NoBody, "list", EmptyDict))

imm_search_patients_resume(t, o) ==
    imm_resume(t, o, "search_patients", StatusErr("fhir_server_error", client_request(o)),
               imm_list("patients", "no_patients_found", <<>>, client_request(o).val))

imm_get_patient(patient_id) ==
    LET op == "get_patient"
        args == [patient_id |-> patient_id]
    IN  Invoke("imm", op,
             IF IsBlank(patient_id) THEN Returned(op, args, <<>>, Err("patient_id_required", <<>>))
             ELSE Ask(op, args, "GET", <<"/", "Patient", "/">> \o strip(patient_id),
                      NoParams, NoBody, "read", EmptyDict))

imm_get_patient_resume(t, o) ==
    imm_resume(t, o, "get_patient", StatusErr("fhir_server_error", client_request(o)),
               imm_render("patient", client_request(o).val))

imm_get_patient_immunizations(patient_id) ==
    LET op == "get_patient_immunizations"
        args == [patient_id |-> patient_id]
    IN  Invoke("imm", op,
             IF IsBlank(patient_id) THEN Returned(op, args, <<>>, Err("patient_id_required", <<>>))
             ELSE Ask(op, args, "GET", <<"/", "Immunization">>,
                      Put(Put(NoParams, "patient", <<"Patient", "/">> \o strip(patient_id)),
                          "_count", Count100),
                      NoBody, "list", EmptyDict))

imm_get_patient_immunizations_resume(t, o) ==
    imm_resume(t, o, "get_patient_immunizations", StatusErr("fhir_server_error", client_request(o)),
               imm_list("immunizations", "no_immunizations_found", <<tasks[t].args.patient_id>>,
                        client_request(o).val))

\* value.strip() if value.strip() else default
OrDefault(value, default) == IF ~IsBlank(value) THEN strip(value) ELSE default

\* the resource a create tool builds from its arguments
Built(resource_type, status) ==
    [EmptyDict EXCEPT !.resourceType = resource_type, !.status = status]

imm_create_immunization(patient_id, vaccine_code, status) ==
    LET op == "create_immunization"
        args == [patient_id |-> patient_id, vaccine_code |-> vaccine_code, status |-> status]
    IN  Invoke("imm", op,
             IF IsBlank(patient_id) THEN Returned(op, args, <<>>, Err("patient_id_required", <<>>))
             ELSE IF IsBlank(vaccine_code)
             THEN Returned(op, args, <<>>, Err("vaccine_code_required", <<>>))
             ELSE Ask(op, args, "POST", <<"/", "Immunization">>, NoParams,
                      Built(<<"Immunization">>, OrDefault(status, <<"completed">>)), "post", EmptyDict))

imm_create_immunization_resume(t, o) ==
    imm_resume(t, o, "create_immunization", HttpErr("fhir_server_error_details", client_request(o)),
               imm_render("immunization_created", client_request(o).val))

\* the texts float() accepts
NumberTexts == {<<"5.5">>}

imm_create_observation(patient_id, code, value_quantity, status) ==
    LET op == "create_observation"
        args == [patient_id |-> patient_id, code |-> code, value_quantity |-> value_quantity,
                 status |-> status]
    IN  Invoke("imm", op,
             IF IsBlank(patient_id) THEN Returned(op, args, <<>>, Err("patient_id_required", <<>>))
             ELSE IF IsBlank(code) THEN Returned(op, args, <<>>, Err("code_required", <<>>))
             ELSE IF ~IsBlank(value_quantity) /\ strip(value_quantity) \notin NumberTexts
             THEN Returned(op, args, <<>>, ExcErr("error", "ValueError"))
             ELSE Ask(op, args, "POST", <<"/", "Observation">>, NoParams,
                      Built(<<"Observation">>, OrDefault(status, <<"final">>)), "post", EmptyDict))

imm_create_observation_resume(t, o) ==
    imm_resume(t, o, "create_observation", HttpErr("fhir_server_error_details", client_request(o)),
               imm_render("observation_created", client_request(o).val))

imm_create_patient(family_name, given_name) ==
    LET op == "create_patient"
        args == [family_name |-> family_name, given_name |-> given_name]
    IN  Invoke("imm", op,
             IF IsBlank(family_name) THEN Returned(op, args, <<>>, Err("family_name_required", <<>>))
             ELSE Ask(op, args, "POST", <<"/", "Patient">>, NoParams,
                      [Built(<<"Patient">>, Absent) EXCEPT !.name = strip(family_name)],
                      "post", EmptyDict))

imm_create_patient_resume(t, o) ==
    imm_resume(t, o, "create_patient", HttpErr("fhir_server_error_details", client_request(o)),
               imm_render("patient_created", client_request(o).val))

\* -------------------------------- fhir_immunization_server.py: terminology
imm_search_valueset(name, url) ==
    LET op == "search_valueset"
        args == [name |-> name, url |-> url]
    IN  Invoke("imm", op,
             Ask(op, args, "GET", <<"/", "ValueSet">>,
                 PutIf(PutIf(Put(NoParams, "_count", Count50), ~IsBlank(name), "name:contains", strip(name)),
                       ~IsBlank(url), "url", strip(url)),
                 NoBody, "list", EmptyDict))

imm_search_valueset_resume(t, o) ==
    imm_resume(t, o, "search_valueset", StatusErr("fhir_server_error", client_request(o)),
               imm_list("valuesets", "no_valuesets_found", <<>>, client_request(o).val))

imm_expand_valueset(valueset_id, valueset_url, filter_text) ==
    LET op == "expand_valueset"
        args == [valueset_id |-> valueset_id, valueset_url |-> valueset_url,
                 filter_text |-> filter_text]
    IN  Invoke("imm", op,
             IF IsBlank(valueset_id) /\ IsBlank(valueset_url)
             THEN Returned(op, args, <<>>, Err("id_or_url_required", <<>>))
             ELSE IF ~IsBlank(valueset_id)
             THEN Ask(op, args, "GET", <<"/", "ValueSet", "/">> \o strip(valueset_id) \o <<"/", "$expand">>,
                      PutIf(NoParams, ~IsBlank(filter_text), "filter", strip(filter_text)),
                      NoBody, "expand", EmptyDict)
             ELSE Ask(op, args, "GET", <<"/", "ValueSet", "/", "$expand">>,
                      PutIf(Put(NoParams, "url", strip(valueset_url)),
                            ~IsBlank(filter_text), "filter", strip(filter_text)),
                      NoBody, "expand", EmptyDict))

imm_expand_valueset_resume(t, o) ==
    imm_resume(t, o, "expand_valueset", HttpErr("fhir_server_error_details", client_request(o)),
               imm_render("expansion", client_request(o).val))

imm_search_codesystem(name, url) ==
    LET op == "search_codesystem"
        args == [name |-> name, url |-> url]
    IN  Invoke("imm", op,
             Ask(op, args, "GET", <<"/", "CodeSystem">>,
                 PutIf(PutIf(Put(NoParams, "_count", Count50), ~IsBlank(name), "name:contains", strip(name)),
                       ~IsBlank(url), "url", strip(url)),
                 NoBody, "list", EmptyDict))

imm_search_codesystem_resume(t, o) ==
    imm_resume(t, o, "search_codesystem", StatusErr("fhir_server_error", client_request(o)),
               imm_list("codesystems", "no_codesystems_found", <<>>, client_request(o).val))

imm_lookup_code(system, code) ==
    LET op == "lookup_code"
        args == [system |-> system, code |-> code]
    IN  Invoke("imm", op,
             IF IsBlank(system) THEN Returned(op, args, <<>>, Err("system_required", <<>>))
             ELSE IF IsBlank(code) THEN Returned(op, args, <<>>, Err("code_required", <<>>))
             ELSE Ask(op, args, "GET", <<"/", "CodeSystem", "/", "$lookup">>,
                      Put(Put(NoParams, "system", strip(system)), "code", strip(code)),
                      NoBody, "lookup", EmptyDict))

imm_lookup_code_resume(t, o) ==
    imm_resume(t, o, "lookup_code",
               IF client_request(o).status = 404
               THEN Err("code_not_found", <<tasks[t].args.code, tasks[t].args.system>>)
               ELSE StatusErr("fhir_server_error", client_request(o)),
               imm_render("code_lookup", client_request(o).val))

\* ---------------------------- fhir_immunization_server.py: generic resources
imm_get_fhir_resource(resource_type, resource_id) ==
    LET op == "get_fhir_resource"
        args == [resource_type |-> resource_type, resource_id |-> resource_id]
    IN  Invoke("imm", op,
             IF IsBlank(resource_type)
             THEN Returned(op, args, <<>>, Err("resource_type_required", <<>>))
             ELSE IF IsBlank(resource_id)
             THEN Returned(op, args, <<>>, Err("resource_id_required", <<>>))
             ELSE Ask(op, args, "GET", <<"/">> \o strip(resource_type) \o <<"/">> \o strip(resource_id),
                      NoParams, NoBody, "read", EmptyDict))

\* the answer handled without the clause for status 404
imm_get_fhir_resource_resume_any_status(t, o) ==
    imm_resume(t, o, "get_fhir_resource", StatusErr("fhir_server_error", client_request(o)),
               imm_render("resource_details", client_request(o).val))

imm_get_fhir_resource_resume(t, o) ==
    imm_resume(t, o, "get_fhir_resource",
               IF client_request(o).status = 404
               THEN Err("resource_not_found", <<tasks[t].args.resource_type, tasks[t].args.resource_id>>)
               ELSE StatusErr("fhir_server_error", client_request(o)),
               imm_render("resource_details", client_request(o).val))

\* params["_count"] = params.get("_count", "50")
imm_search_query(search_params) ==
    LET params == IF IsBlank(search_params) THEN NoParams ELSE ParseQuery(strip(search_params), NoParams)
    IN  IF "_count" \in DOMAIN params THEN params ELSE Put(params, "_count", Count50)

imm_search_fhir_resources(resource_type, search_params) ==
    LET op == "search_fhir_resources"
        args == [resource_type |-> resource_type, search_params |-> search_params]
    IN  Invoke("imm", op,
             IF IsBlank(resource_type)
             THEN Returned(op, args, <<>>, Err("resource_type_required", <<>>))
             ELSE Ask(op, args, "GET", <<"/">> \o strip(resource_type), imm_search_query(search_params),
                      NoBody, "list", EmptyDict))

imm_search_fhir_resources_resume(t, o) ==
    imm_resume(t, o, "search_fhir_resources", StatusErr("fhir_server_error", client_request(o)),
               imm_list("resources", "no_resources_found", <<tasks[t].args.resource_type>>,
                        client_request(o).val))

imm_get_server_capability ==
    LET op == "get_server_capability"
    IN  Invoke("imm", op, Ask(op, NoParams, "GET", <<"/", "metadata">>, NoParams, NoBody, "read", EmptyDict))

imm_get_server_capability_resume(t, o) ==
    imm_resume(t, o, "get_server_capability", StatusErr("fhir_server_error", client_request(o)),
               imm_render("capability", client_request(o).val))

\* ------------------------------------------------------------ input pools
\* identifiers: empty, blank, plain, padded
IdPool == {<<>>, <<WS>>, <<"42">>, <<"42", WS>>}

IgIdPool == {<<>>, <<WS>>, <<"ig1">>}

IgUrlPool == {<<>>, <<"http:", "/", "ig2">>}

TypePool == {<<>>, <<WS>>, <<"Patient">>}

\* optional filters
OptPool == {<<>>, <<WS>>, <<"active">>}

FewPool == {<<>>, <<WS>>, <<"x">>}

UrlPool == {<<>>, <<"http:", "/", "vs">>}

Formats == {"json", "markdown"}

SubjectPool == {<<>>, <<WS>>, <<"123">>, <<"Patient", "/", "123">>}

SearchPool == {<<>>, <<"name", "=", "John">>, <<"junk">>,
               <<"_count", "=", "5", "&", "name", "=", "J">>}

QuantityPool == {<<>>, <<"5.5">>, <<"abc">>}

P(rt, id) == [EmptyDict EXCEPT !.resourceType = rt, !.id = id]

\* resource_json arguments
JsonPool == {Text("empty", EmptyDict), Text("space", EmptyDict), Text("bad", EmptyDict),
             Text("short", EmptyDict),
             Text("ok", JList), Text("ok", JNum), Text("ok", EmptyDict),
             Text("ok", P(<<"Patient">>, Absent)), Text("ok", P(<<>>, <<"42">>))}

\* resource_json arguments of update: bodies that agree and disagree with the path
UpdatePool == {Text("space", EmptyDict), Text("bad", EmptyDict), Text("ok", JList),
               Text("ok", EmptyDict), Text("ok", P(<<"Patient">>, <<"42">>)),
               Text("ok", P(<<"Patient">>, <<"7">>)), Text("ok", P(<<"Observation">>, <<"42">>)),
               Text("ok", P(<<>>, Absent))}

QR(questionnaire) == [EmptyDict EXCEPT !.resourceType = <<"QuestionnaireResponse">>,
                                       !.questionnaire = questionnaire]

QrPool == {Text("empty", EmptyDict), Text("bad", EmptyDict), Text("ok", JList),
           Text("ok", P(<<"Patient">>, Absent)), Text("ok", QR(Absent)),
           Text("ok", QR(<<"Questionnaire", "/", "q1">>)), Text("ok", QR(<<"http:", "/", "q">>))}

MapPool == {<<>>, <<WS>>, <<"http:", "/", "map">>}

Slots == 1..MaxTasks

\* the values a client can pass to a tool of the server that can be invoked now
Offer(server, op, pool) == IF srv = server /\ CanStart(op) THEN pool ELSE {}

\* the invocations of a tool that are suspended on a request
\* only the first request of an invocation ever completes
Waiting_first_only(server, op) ==
    {t \in Tasks : srv = server /\ ~Undelivered /\ tasks[t].pc = "await" /\ tasks[t].op = op
                     /\ tasks[t].resps = <<>>}

Waiting(server, op) ==
    {t \in Tasks : srv = server /\ ~Undelivered /\ tasks[t].pc = "await" /\ tasks[t].op = op}

fs_Next ==
    \/ \E id \in Offer("fs", "fhir_set_implementation_guide_context", IgIdPool), url \in IgUrlPool : fs_fhir_set_implementation_guide_context(id, url)
    \/ \E t \in Waiting("fs", "fhir_set_implementation_guide_context"), o \in Outcomes : fs_fhir_set_implementation_guide_context_resume(t, o)
    \/ fs_fhir_get_current_implementation_guide_context
    \/ \E id \in Offer("fs", "fhir_get_implementation_guide", IgIdPool), url \in IgUrlPool, f \in Formats : fs_fhir_get_implementation_guide(id, url, f)
    \/ \E t \in Waiting("fs", "fhir_get_implementation_guide"), o \in Outcomes : fs_fhir_get_implementation_guide_resume(t, o)
    \/ \E n \in Offer("fs", "fhir_list_implementation_guides", OptPool), f \in Formats : fs_fhir_list_implementation_guides(n, f)
    \/ \E t \in Waiting("fs", "fhir_list_implementation_guides"), o \in Outcomes : fs_fhir_list_implementation_guides_resume(t, o)
    \/ \E s \in Offer("fs", "fhir_list_plan_definitions", OptPool), n \in FewPool, f \in Formats : fs_fhir_list_plan_definitions(s, n, f)
    \/ \E t \in Waiting("fs", "fhir_list_plan_definitions"), o \in Outcomes : fs_fhir_list_plan_definitions_resume(t, o)
    \/ \E id \in Offer("fs", "fhir_get_plan_definition", IdPool), f \in Formats : fs_fhir_get_plan_definition(id, f)
    \/ \E t \in Waiting("fs", "fhir_get_plan_definition"), o \in Outcomes : fs_fhir_get_plan_definition_resume(t, o)
    \/ \E id \in Offer("fs", "fhir_apply_plan_definition", IdPool), s \in SubjectPool, e \in OptPool, p \in FewPool, g \in FewPool :
          fs_fhir_apply_plan_definition(id, s, e, p, g)
    \/ \E t \in Waiting("fs", "fhir_apply_plan_definition"), o \in Outcomes : fs_fhir_apply_plan_definition_resume(t, o)
    \/ \E ty \in Offer("fs", "fhir_get_resource", TypePool), id \in IdPool, f \in Formats : fs_fhir_get_resource(ty, id, f)
    \/ \E t \in Waiting("fs", "fhir_get_resource"), o \in Outcomes : fs_fhir_get_resource_resume(t, o)
    \/ \E ty \in Offer("fs", "fhir_search_resources", TypePool), q \in SearchPool, f \in Formats : fs_fhir_search_resources(ty, q, f)
    \/ \E t \in Waiting("fs", "fhir_search_resources"), o \in Outcomes : fs_fhir_search_resources_resume(t, o)
    \/ \E j \in Offer("fs", "fhir_create_resource", JsonPool) : fs_fhir_create_resource(j)
    \/ \E t \in Waiting("fs", "fhir_create_resource"), o \in Outcomes : fs_fhir_create_resource_resume(t, o)
    \/ \E ty \in Offer("fs", "fhir_update_resource", TypePool), id \in IdPool, j \in UpdatePool : fs_fhir_update_resource(ty, id, j)
    \/ \E t \in Waiting("fs", "fhir_update_resource"), o \in Outcomes : fs_fhir_update_resource_resume(t, o)
    \/ \E ty \in Offer("fs", "fhir_delete_resource", TypePool), id \in IdPool : fs_fhir_delete_resource(ty, id)
    \/ \E t \in Waiting("fs", "fhir_delete_resource"), o \in Outcomes : fs_fhir_delete_resource_resume(t, o)
    \/ \E n \in Offer("fs", "fhir_list_valuesets", OptPool), u \in FewPool, f \in Formats : fs_fhir_list_valuesets(n, u, f)
    \/ \E t \in Waiting("fs", "fhir_list_valuesets"), o \in Outcomes : fs_fhir_list_valuesets_resume(t, o)
    \/ \E id \in Offer("fs", "fhir_expand_valueset", IdPool), u \in UrlPool, x \in OptPool, f \in Formats : fs_fhir_expand_valueset(id, u, x, f)
    \/ \E t \in Waiting("fs", "fhir_expand_valueset"), o \in Outcomes : fs_fhir_expand_valueset_resume(t, o)
    \/ \E n \in Offer("fs", "fhir_list_codesystems", OptPool), u \in FewPool, f \in Formats : fs_fhir_list_codesystems(n, u, f)
    \/ \E t \in Waiting("fs", "fhir_list_codesystems"), o \in Outcomes : fs_fhir_list_codesystems_resume(t, o)
    \/ \E s \in Offer("fs", "fhir_lookup_code", UrlPool \cup {<<WS>>}), c \in IdPool, v \in OptPool : fs_fhir_lookup_code(s, c, v)
    \/ \E t \in Waiting("fs", "fhir_lookup_code"), o \in Outcomes : fs_fhir_lookup_code_resume(t, o)
    \/ \E id \in Offer("fs", "fhir_get_questionnaire", IdPool), u \in UrlPool, f \in Formats : fs_fhir_get_questionnaire(id, u, f)
    \/ \E t \in Waiting("fs", "fhir_get_questionnaire"), o \in Outcomes : fs_fhir_get_questionnaire_resume(t, o)
    \/ \E n \in Offer("fs", "fhir_list_questionnaires", OptPool), s \in FewPool, f \in Formats : fs_fhir_list_questionnaires(n, s, f)
    \/ \E t \in Waiting("fs", "fhir_list_questionnaires"), o \in Outcomes : fs_fhir_list_questionnaires_resume(t, o)
    \/ \E j \in Offer("fs", "fhir_transform_questionnaire_response", QrPool), m \in MapPool : fs_fhir_transform_questionnaire_response(j, m)
    \/ \E t \in Waiting("fs", "fhir_transform_questionnaire_response"), o \in Outcomes : fs_fhir_transform_questionnaire_response_resume(t, o)
    \/ fs_fhir_get_server_capability
    \/ \E t \in Waiting("fs", "fhir_get_server_capability"), o \in Outcomes : fs_fhir_get_server_capability_resume(t, o)

mcp_Next ==
    \/ \E id \in Offer("mcp", "fhir_set_implementation_guide_context", IgIdPool), url \in IgUrlPool : mcp_fhir_set_implementation_guide_context(id, url)
    \/ \E t \in Waiting("mcp", "fhir_set_implementation_guide_context"), o \in Outcomes : mcp_fhir_set_implementation_guide_context_resume(t, o)
    \/ mcp_fhir_get_current_implementation_guide_context
    \/ \E id \in Offer("mcp", "fhir_get_implementation_guide", IgIdPool), url \in IgUrlPool, f \in Formats : mcp_fhir_get_implementation_guide(id, url, f)
    \/ \E t \in Waiting("mcp", "fhir_get_implementation_guide"), o \in Outcomes : mcp_fhir_get_implementation_guide_resume(t, o)
    \/ \E n \in Offer("mcp", "fhir_list_implementation_guides", OptPool), f \in Formats : mcp_fhir_list_implementation_guides(n, f)
    \/ \E t \in Waiting("mcp", "fhir_list_implementation_guides"), o \in Outcomes : mcp_fhir_list_implementation_guides_resume(t, o)
    \/ \E s \in Offer("mcp", "fhir_list_plan_definitions", OptPool), n \in FewPool, f \in Formats : mcp_fhir_list_plan_definitions(s, n, f)
    \/ \E t \in Waiting("mcp", "fhir_list_plan_definitions"), o \in Outcomes : mcp_fhir_list_plan_definitions_resume(t, o)
    \/ \E id \in Offer("mcp", "fhir_get_plan_definition", IdPool), f \in Formats : mcp_fhir_get_plan_definition(id, f)
    \/ \E t \in Waiting("mcp", "fhir_get_plan_definition"), o \in Outcomes : mcp_fhir_get_plan_definition_resume(t, o)
    \/ \E id \in Offer("mcp", "fhir_apply_plan_definition", IdPool), s \in SubjectPool, e \in OptPool, p \in FewPool, g \in FewPool :
          mcp_fhir_apply_plan_definition(id, s, e, p, g)
    \/ \E t \in Waiting("mcp", "fhir_apply_plan_definition"), o \in Outcomes : mcp_fhir_apply_plan_definition_resume(t, o)
    \/ \E ty \in Offer("mcp", "fhir_get_resource", TypePool), id \in IdPool, f \in Formats : mcp_fhir_get_resource(ty, id, f)
    \/ \E t \in Waiting("mcp", "fhir_get_resource"), o \in Outcomes : mcp_fhir_get_resource_resume(t, o)
    \/ \E ty \in Offer("mcp", "fhir_search_resources", TypePool), q \in SearchPool, f \in Formats : mcp_fhir_search_resources(ty, q, f)
    \/ \E t \in Waiting("mcp", "fhir_search_resources"), o \in Outcomes : mcp_fhir_search_resources_resume(t, o)
    \/ \E j \in Offer("mcp", "fhir_create_resource", JsonPool) : mcp_fhir_create_resource(j)
    \/ \E t \in Waiting("mcp", "fhir_create_resource"), o \in Outcomes : mcp_fhir_create_resource_resume(t, o)
    \/ \E ty \in Offer("mcp", "fhir_update_resource", TypePool), id \in IdPool, j \in UpdatePool : mcp_fhir_update_resource(ty, id, j)
    \/ \E t \in Waiting("mcp", "fhir_update_resource"), o \in Outcomes : mcp_fhir_update_resource_resume(t, o)
    \/ \E ty \in Offer("mcp", "fhir_delete_resource", TypePool), id \in IdPool : mcp_fhir_delete_resource(ty, id)
    \/ \E t \in Waiting("mcp", "fhir_delete_resource"), o \in Outcomes : mcp_fhir_delete_resource_resume(t, o)
    \/ \E s \in Offer("mcp", "fhir_lookup_code", UrlPool \cup {<<WS>>}), c \in IdPool, v \in OptPool : mcp_fhir_lookup_code(s, c, v)
    \/ \E t \in Waiting("mcp", "fhir_lookup_code"), o \in Outcomes : mcp_fhir_lookup_code_resume(t, o)
    \/ \E id \in Offer("mcp", "fhir_expand_valueset", IdPool), u \in UrlPool, x \in OptPool, f \in Formats : mcp_fhir_expand_valueset(id, u, x, f)
    \/ \E t \in Waiting("mcp", "fhir_expand_valueset"), o \in Outcomes : mcp_fhir_expand_valueset_resume(t, o)
    \/ \E n \in Offer("mcp", "fhir_list_codesystems", OptPool), u \in FewPool, f \in Formats : mcp_fhir_list_codesystems(n, u, f)
    \/ \E t \in Waiting("mcp", "fhir_list_codesystems"), o \in Outcomes : mcp_fhir_list_codesystems_resume(t, o)
    \/ \E n \in Offer("mcp", "fhir_list_valuesets", OptPool), u \in FewPool, f \in Formats : mcp_fhir_list_valuesets(n, u, f)
    \/ \E t \in Waiting("mcp", "fhir_list_valuesets"), o \in Outcomes : mcp_fhir_list_valuesets_resume(t, o)
    \/ mcp_fhir_get_server_capability
    \/ \E t \in Waiting("mcp", "fhir_get_server_capability"), o \in Outcomes : mcp_fhir_get_server_capability_resume(t, o)

imm_Next ==
    \/ \E s \in Offer("imm", "list_plan_definitions", OptPool), n \in OptPool : imm_list_plan_definitions(s, n)
    \/ \E t \in Waiting("imm", "list_plan_definitions"), o \in Outcomes : imm_list_plan_definitions_resume(t, o)
    \/ \E id \in Offer("imm", "get_plan_definition", IdPool) : imm_get_plan_definition(id)
    \/ \E t \in Waiting("imm", "get_plan_definition"), o \in Outcomes : imm_get_plan_definition_resume(t, o)
    \/ \E id \in Offer("imm", "apply_plan_definition", IdPool), s \in SubjectPool, e \in OptPool, p \in FewPool :
          imm_apply_plan_definition(id, s, e, p)
    \/ \E t \in Waiting("imm", "apply_plan_definition"), o \in Outcomes : imm_apply_plan_definition_resume(t, o)
    \/ \E id \in Offer("imm", "get_plan_definition_data_requirements", IdPool) : imm_get_plan_definition_data_requirements(id)
    \/ \E t \in Waiting("imm", "get_plan_definition_data_requirements"), o \in Outcomes : imm_get_plan_definition_data_requirements_resume(t, o)
    \/ \E n \in Offer("imm", "search_patients", OptPool), i \in FewPool, b \in FewPool : imm_search_patients(n, i, b)
    \/ \E t \in Waiting("imm", "search_patients"), o \in Outcomes : imm_search_patients_resume(t, o)
    \/ \E id \in Offer("imm", "get_patient", IdPool) : imm_get_patient(id)
    \/ \E t \in Waiting("imm", "get_patient"), o \in Outcomes : imm_get_patient_resume(t, o)
    \/ \E id \in Offer("imm", "get_patient_immunizations", IdPool) : imm_get_patient_immunizations(id)
    \/ \E t \in Waiting("imm", "get_patient_immunizations"), o \in Outcomes : imm_get_patient_immunizations_resume(t, o)
    \/ \E id \in Offer("imm", "create_immunization", IdPool), c \in IdPool, s \in OptPool : imm_create_immunization(id, c, s)
    \/ \E t \in Waiting("imm", "create_immunization"), o \in Outcomes : imm_create_immunization_resume(t, o)
    \/ \E id \in Offer("imm", "create_observation", IdPool), c \in IdPool, q \in QuantityPool, s \in FewPool :
          imm_create_observation(id, c, q, s)
    \/ \E t \in Waiting("imm", "create_observation"), o \in Outcomes : imm_create_observation_resume(t, o)
    \/ \E n \in Offer("imm", "create_patient", OptPool), g \in FewPool : imm_create_patient(n, g)
    \/ \E t \in Waiting("imm", "create_patient"), o \in Outcomes : imm_create_patient_resume(t, o)
    \/ \E n \in Offer("imm", "search_valueset", OptPool), u \in UrlPool : imm_search_valueset(n, u)
    \/ \E t \in Waiting("imm", "search_valueset"), o \in Outcomes : imm_search_valueset_resume(t, o)
    \/ \E id \in Offer("imm", "expand_valueset", IdPool), u \in UrlPool, x \in OptPool : imm_expand_valueset(id, u, x)
    \/ \E t \in Waiting("imm", "expand_valueset"), o \in Outcomes : imm_expand_valueset_resume(t, o)
    \/ \E n \in Offer("imm", "search_codesystem", OptPool), u \in UrlPool : imm_search_codesystem(n, u)
    \/ \E t \in Waiting("imm", "search_codesystem"), o \in Outcomes : imm_search_codesystem_resume(t, o)
    \/ \E s \in Offer("imm", "lookup_code", UrlPool \cup {<<WS>>}), c \in IdPool : imm_lookup_code(s, c)
    \/ \E t \in Waiting("imm", "lookup_code"), o \in Outcomes : imm_lookup_code_resume(t, o)
    \/ \E ty \in Offer("imm", "get_fhir_resource", TypePool), id \in IdPool : imm_get_fhir_resource(ty, id)
    \/ \E t \in Waiting("imm", "get_fhir_resource"), o \in Outcomes : imm_get_fhir_resource_resume(t, o)
    \/ \E ty \in Offer("imm", "search_fhir_resources", TypePool), q \in SearchPool : imm_search_fhir_resources(ty, q)
    \/ \E t \in Waiting("imm", "search_fhir_resources"), o \in Outcomes : imm_search_fhir_resources_resume(t, o)
    \/ imm_get_server_capability
    \/ \E t \in Waiting("imm", "get_server_capability"), o \in Outcomes : imm_get_server_capability_resume(t, o)

Next ==
    \/ \E t \in Slots : Deliver(t)
    \/ fs_Next
    \/ mcp_Next
    \/ imm_Next

Spec == Init /\ [][Next]_vars

\* --------------------------------------------------------------- fairness
\* The event loop runs every coroutine that is ready: a finished invocation is
\* handed to the client, and the oldest invocation is resumed when the request
\* it awaits has completed (with a response, a timeout or a connection failure).
\* Younger invocations become the oldest as the older ones return.
Return == \E t \in Slots : Deliver(t)

ResumeOldest ==
    /\ tasks # <<>>
    /\ tasks[1].pc = "await"
    /\ Next
    /\ Len(tasks') = Len(tasks)
    /\ tasks'[1] # tasks[1]

SpecLive == Init /\ [][Next]_vars /\ WF_vars(Return) /\ SF_vars(ResumeOldest)

\* ===================================================== the raw_json mode
\* format_resource_summary(resource, "json") and format_bundle_summary(bundle,
\* "json"): return json.dumps(resource, indent=2)
format_raw_json(value) == dumps(value, 0)

\* the characters of the strings tried
StrChars == {"a", "n", "QUOTE", "BACKSLASH", "NL", "EACUTE", "{", ","}

Strings == {<<>>} \cup {<<c>> : c \in StrChars}
               \cup {<<"BACKSLASH", "n">>, <<"a", "QUOTE">>, <<"QUOTE", ",">>}

Scalars == {PyNone, PyBool(TRUE), PyBool(FALSE)} \cup {PyInt(n) : n \in IntLexemes}
               \cup {PyFloat(x) : x \in FloatLexemes} \cup {PyStr(c) : c \in Strings}

Keys == {<<>>, <<"a">>, <<"QUOTE">>}

\* the values one level down
Inner == Scalars \cup {PyList(<<>>), PyDict(<<>>)}
             \cup {PyList(<<x>>) : x \in Scalars}
             \cup {PyList(<<PyInt("0"), x>>) : x \in Scalars}
             \cup {PyDict(<<Member(k, x)>>) : k \in Keys, x \in Scalars}

\* the JSON objects tried: up to two members under distinct keys
Objects == {PyDict(<<>>)}
               \cup {PyDict(<<Member(k, x)>>) : k \in Keys, x \in Inner}
               \cup UNION {{PyDict(<<Member(k, x), Member(l, y)>>) :
                               l \in Keys \ {k}, x \in Scalars, y \in {PyNone, PyStr(<<"QUOTE">>)}} :
                            k \in Keys}

InitFormat ==
    /\ srv = "fs"
    /\ current_ig_context = NoContext
    /\ implementation_guide_context = EmptyDict
    /\ tasks = <<>>
    /\ fmt_value \in Objects \cup Inner
    /\ fmt_text = <<>>
    /\ fmt_parsed = Pending

\* the formatter is called in raw_json mode
Format ==
    /\ fmt_text = <<>>
    /\ fmt_text' = format_raw_json(fmt_value)
    /\ UNCHANGED <<srv, current_ig_context, implementation_guide_context, tasks, fmt_value, fmt_parsed>>

\* the client parses the text it was given
Reparse ==
    /\ fmt_text # <<>>
    /\ fmt_parsed = Pending
    /\ fmt_parsed' = loads(fmt_text)
    /\ UNCHANGED <<srv, current_ig_context, implementation_guide_context, tasks, fmt_value, fmt_text>>

NextFormat == Format \/ Reparse

SpecFormat == InitFormat /\ [][NextFormat]_vars

\* ============================================= the summary of a Bundle
\* Here a Bundle is its total (NoNumber when the key is missing) and its
\* entries, each entry the id of its resource; a summary is the total in its
\* header, the count of returned entries when the header states it, its entry
\* lines in order, and the N of its "... and N more" trailer (NoNumber where
\* the text has no such number).
MaxEntries == 22

NoNumber == -1

Totals == {NoNumber, 0, 3, 25}

\* bundle.get("total", default)
GetTotal(bundle, default) == IF bundle.total = NoNumber THEN default ELSE bundle.total

SearchBundle(total, k) == [total |-> total, entry |-> [i \in 1..k |-> [id |-> i]]]

Bundles == {SearchBundle(total, k) : total \in Totals, k \in 0..MaxEntries}

Summary(kind, total, returned, lines, trailer) ==
    [kind |-> kind, total |-> total, returned |-> returned, lines |-> lines, trailer |-> trailer]

\* entries[:n]
Prefix(entries, n) == SubSeq(entries, 1, IF Len(entries) < n THEN Len(entries) ELSE n)

\* format_bundle_summary(bundle, "markdown") of fhir_server.py
format_bundle_summary(bundle) ==
    LET entries == bundle.entry
        total == GetTotal(bundle, Len(entries))
    IN  Summary("search_results", total, NoNumber,
                [i \in 1..Len(Prefix(entries, 20)) |-> [n |-> i, id |-> Prefix(entries, 20)[i].id]],
                IF Len(entries) > 20 THEN Len(entries) - 20 ELSE NoNumber)

\* fhir_search_resources of fhir_mcp_server.py, from the answer on, in markdown
mcp_search_results(result) ==
    LET entries == result.entry
        total == GetTotal(result, Len(entries))
    IN  IF entries = <<>> THEN Summary("no_resources_found", NoNumber, NoNumber, <<>>, NoNumber)
        ELSE Summary("search_results", total, Len(entries),
                     [i \in 1..Len(entries) |-> [n |-> NoNumber, id |-> entries[i].id]],
                     NoNumber)

InitSummary ==
    /\ srv \in {"fs", "mcp"}
    /\ current_ig_context = NoContext
    /\ implementation_guide_context = EmptyDict
    /\ tasks = <<>>
    /\ fmt_value \in Bundles
    /\ fmt_text = <<>>
    /\ fmt_parsed = Pending

\* fhir_server.py summarizes the Bundle it was answered
FormatBundle ==
    /\ srv = "fs"
    /\ fmt_text = <<>>
    /\ fmt_text' = format_bundle_summary(fmt_value)
    /\ UNCHANGED <<srv, current_ig_context, implementation_guide_context, tasks, fmt_value, fmt_parsed>>

\* fhir_mcp_server.py's search renders the Bundle it was answered
SearchResults ==
    /\ srv = "mcp"
    /\ fmt_text = <<>>
    /\ fmt_text' = mcp_search_results(fmt_value)
    /\ UNCHANGED <<srv, current_ig_context, implementation_guide_context, tasks, fmt_value, fmt_parsed>>

NextSummary == FormatBundle \/ SearchResults

SpecSummary == InitSummary /\ [][NextSummary]_vars

\* ==================================== get_server_capability: the resources
\* Here a CapabilityStatement is its rest list, each rest its resource list,
\* each resource its type; the text is the count in its heading, the types it
\* lists in order, and the N of its "... and N more resource types" trailer.
key_resources == <<"PlanDefinition", "ActivityDefinition", "Patient", "Immunization",
                   "Observation", "CarePlan", "ValueSet", "CodeSystem", "Library">>

OtherTypes == <<"Account", "Basic", "Claim", "Device", "Encounter", "Flag", "Goal",
                "Group", "Invoice", "List", "Media">>

\* the first i key types and the first j other types, the other types first
Supported(i, j) ==
    [n \in 1..(i + j) |-> [type |-> IF n <= j THEN OtherTypes[n] ELSE key_resources[n - j]]]

CapabilityStatements ==
    {[rest |-> <<>>]}
    \cup {[rest |-> <<[resource |-> Supported(i, j)]>>] :
            i \in 0..Len(key_resources), j \in 0..Len(OtherTypes)}

\* [res_type for res in resources if res_type in key_resources]
RECURSIVE KeyTypesOf(_)
KeyTypesOf(resources) ==
    IF resources = <<>> THEN <<>>
    ELSE IF \E k \in 1..Len(key_resources) : key_resources[k] = Head(resources).type
         THEN <<Head(resources).type>> \o KeyTypesOf(Tail(resources))
         ELSE KeyTypesOf(Tail(resources))

\* get_server_capability of fhir_immunization_server.py, from cap.get("rest", []) on
capability_resources(cap) ==
    IF cap.rest = <<>>
    THEN [kind |-> "capability", has_resources |-> FALSE, supported |-> 0, listed |-> <<>>,
          more |-> 0]
    ELSE LET resources == cap.rest[1].resource
         IN  [kind |-> "capability", has_resources |-> TRUE, supported |-> Len(resources),
              listed |-> KeyTypesOf(resources),
              more |-> Len(resources) - Len(key_resources)]

InitCapability ==
    /\ srv = "imm"
    /\ current_ig_context = NoContext
    /\ implementation_guide_context = EmptyDict
    /\ tasks = <<>>
    /\ fmt_value \in CapabilityStatements
    /\ fmt_text = <<>>
    /\ fmt_parsed = Pending

\* the capability statement the server answered with is rendered
RenderCapability ==
    /\ fmt_text = <<>>
    /\ fmt_text' = capability_resources(fmt_value)
    /\ UNCHANGED <<srv, current_ig_context, implementation_guide_context, tasks, fmt_value, fmt_parsed>>

NextCapability == RenderCapability

SpecCapability == InitCapability /\ [][NextCapability]_vars

\* ================================================================ claims
\* the JSON-text arguments
JsonArgs == {"resource_json", "questionnaire_response_json"}

\* an argument that is empty or holds white space only
BlankValue(p, v) == IF p \in JsonArgs THEN v.syn \in {"empty", "space"} ELSE strip(v) = <<>>

\* the required string parameters of each tool
Required(op) ==
    CASE op \in {"fhir_get_plan_definition", "get_plan_definition",
                 "get_plan_definition_data_requirements"} -> {"plan_definition_id"}
      [] op \in {"fhir_apply_plan_definition", "apply_plan_definition"} -> {"plan_definition_id", "subject"}
      [] op \in {"fhir_get_resource", "fhir_delete_resource", "get_fhir_resource"}
            -> {"resource_type", "resource_id"}
      [] op \in {"fhir_search_resources", "search_fhir_resources"} -> {"resource_type"}
      [] op = "fhir_create_resource" -> {"resource_json"}
      [] op = "fhir_update_resource" -> {"resource_type", "resource_id", "resource_json"}
      [] op \in {"fhir_lookup_code", "lookup_code"} -> {"system", "code"}
      [] op = "fhir_transform_questionnaire_response" -> {"questionnaire_response_json"}
      [] op \in {"get_patient", "get_patient_immunizations"} -> {"patient_id"}
      [] op = "create_immunization" -> {"patient_id", "vaccine_code"}
      [] op = "create_observation" -> {"patient_id", "code"}
      [] op = "create_patient" -> {"family_name"}
      [] OTHER -> {}

\* C1: an invocation that passes an empty or whitespace-only value for a
\* required string parameter returns an error string and sends no request.
C1_BlankRequiredIsRefused ==
    \A u \in Tasks : \A p \in Required(tasks[u].op) :
        BlankValue(p, tasks[u].args[p]) =>
            /\ tasks[u].pc = "done"
            /\ tasks[u].result.err
            /\ tasks[u].reqs = <<>>

\* an update whose type is given and whose id is white space has been refused
C1_Witness ==
    \E u \in Tasks :
        /\ tasks[u].op = "fhir_update_resource"
        /\ tasks[u].args.resource_type = <<"Patient">>
        /\ tasks[u].args.resource_id = <<WS>>
        /\ tasks[u].pc = "done"
        /\ tasks[u].result.err
        /\ tasks[u].reqs = <<>>

\* a parameter as the tool body receives it: fhir_mcp_server.py's input models
\* strip it first
Received(v) == IF srv = "mcp" THEN strip(v) ELSE v

\* an update with a type, an id and a body that is a JSON object
UpdateOfObject(u) ==
    /\ tasks[u].op = "fhir_update_resource"
    /\ strip(tasks[u].args.resource_type) # <<>>
    /\ strip(tasks[u].args.resource_id) # <<>>
    /\ tasks[u].args.resource_json.syn = "ok"
    /\ tasks[u].args.resource_json.val.k = "obj"

\* C2 as stated: every update with a JSON-object body sends a PUT whose body
\* has resourceType = T and id = I; a mismatching body is overridden, not rejected.
C2_MismatchIsOverridden ==
    \A u \in Tasks : UpdateOfObject(u) =>
        /\ Len(tasks[u].reqs) = 1
        /\ tasks[u].reqs[1].method = "PUT"
        /\ tasks[u].reqs[1].data.resourceType = Received(tasks[u].args.resource_type)
        /\ tasks[u].reqs[1].data.id = Received(tasks[u].args.resource_id)

\* C2 amended: fhir_server.py sends a PUT of the body with resourceType = T and
\* id = I forced; fhir_mcp_server.py does the same unless the body's non-empty
\* resourceType differs from T, which it refuses with an error and no request.
C2_OverriddenOrRefused ==
    \A u \in Tasks : UpdateOfObject(u) =>
        LET B == tasks[u].args.resource_json.val
            T == Received(tasks[u].args.resource_type)
            I == Received(tasks[u].args.resource_id)
        IN  IF srv = "mcp" /\ B.resourceType \notin {Absent, <<>>, T}
            THEN /\ tasks[u].pc = "done"
                 /\ tasks[u].result.err
                 /\ tasks[u].result.kind = "resource_type_mismatch"
                 /\ tasks[u].reqs = <<>>
            ELSE /\ Len(tasks[u].reqs) = 1
                 /\ tasks[u].reqs[1].method = "PUT"
                 /\ tasks[u].reqs[1].url = T \o <<"/">> \o I
                 /\ tasks[u].reqs[1].data = [B EXCEPT !.resourceType = T, !.id = I]

\* fhir_server.py has sent an Observation body to Patient/42 as a Patient
C2_Witness ==
    \E u \in Tasks :
        /\ srv = "fs"
        /\ UpdateOfObject(u)
        /\ tasks[u].args.resource_json.val.resourceType = <<"Observation">>
        /\ Len(tasks[u].reqs) = 1
        /\ tasks[u].reqs[1].data.resourceType = <<"Patient">>
        /\ tasks[u].reqs[1].data.id = <<"42">>

\* this step invokes set-context with neither an id nor a url
BlankSetInvoked ==
    /\ Len(tasks') = Len(tasks) + 1
    /\ tasks'[Len(tasks')].op = "fhir_set_implementation_guide_context"
    /\ strip(tasks'[Len(tasks')].args.implementation_guide_id) = <<>>
    /\ strip(tasks'[Len(tasks')].args.implementation_guide_url) = <<>>

\* what a get-context call would report: no context is set
ReportsNoContext ==
    IF srv = "fs" THEN fs_context_report(current_ig_context).kind = "no_context_set"
    ELSE mcp_context_report("fhir_get_current_implementation_guide_context",
                            implementation_guide_context).result.kind = "no_context_set"

ApplyOps == {"fhir_apply_plan_definition", "apply_plan_definition"}

\* a subject without a resource type gets the Patient type in front
Normalized(subject) ==
    IF Contains(subject, "/") THEN subject ELSE <<"Patient", "/">> \o strip(subject)

\* C4: apply-plan-definition sends the subject as Patient/<id> when it is given
\* without a resource type, and sends a subject that has one unchanged.
C4_SubjectIsNormalized ==
    \A u \in Tasks :
        (tasks[u].op \in ApplyOps /\ tasks[u].reqs # <<>>)
            => tasks[u].reqs[1].params.subject = Normalized(tasks[u].args.subject)

\* the get-resource operation of each variant
GetResourceOps == {"fhir_get_resource", "get_fhir_resource"}

\* the request of invocation u was answered with HTTP 404
Answered404(u) ==
    /\ tasks[u].op \in GetResourceOps
    /\ tasks[u].resps # <<>>
    /\ tasks[u].resps[1].t = "http"
    /\ tasks[u].resps[1].status = 404

\* the result is the not-found message with type T and id I in it
NamesResource(u) ==
    /\ tasks[u].pc = "done"
    /\ tasks[u].result.err
    /\ tasks[u].result.kind = "resource_not_found"
    /\ tasks[u].result.parts = <<tasks[u].args.resource_type, tasks[u].args.resource_id>>

OutcomeOps == {"fhir_create_resource", "fhir_update_resource", "fhir_apply_plan_definition",
               "fhir_transform_questionnaire_response"}

\* the last answer to invocation u is a non-success response whose body is an
\* OperationOutcome with several issues
AnsweredWithIssues(u) ==
    /\ tasks[u].op \in OutcomeOps
    /\ tasks[u].resps # <<>>
    /\ LET o == tasks[u].resps[Len(tasks[u].resps)]
       IN  /\ o.t = "http"
           /\ ~IsSuccess(o.status)
           /\ o.body.syn = "ok"
           /\ IsDict(o.body.val)
           /\ o.body.val.resourceType = <<"OperationOutcome">>
           /\ Len(o.body.val.issue) >= 2

\* C6: a non-success response carrying an OperationOutcome with several issues is
\* returned by create, update, apply and transform as an error with one entry per
\* issue, each made of that issue's message and its own severity tag ("error"
\* when the issue has none).
C6_EveryIssueTagged ==
    \A u \in Tasks :
        AnsweredWithIssues(u) =>
            LET issues == tasks[u].resps[Len(tasks[u].resps)].body.val.issue
            IN  /\ tasks[u].pc = "done"
                /\ tasks[u].result.err
                /\ Len(tasks[u].result.lines) = Len(issues)
                /\ \A i \in 1..Len(issues) :
                      /\ tasks[u].result.lines[i].tag = Get(issues[i].severity, <<"error">>)
                      /\ tasks[u].result.lines[i].msg = IssueMessage(issues[i])

\* C7: every tool invocation returns a string; no exception leaves a tool
\* function, whatever the inputs and whatever the remote server answers.
C7_NoExceptionPropagates ==
    \A u \in Tasks :
        /\ tasks[u].pc # "raised"
        /\ tasks[u].pc = "done" => tasks[u].result.kind # "none"

\* this step invokes a create that sends its request
CreateInvoked ==
    /\ Len(tasks') = Len(tasks) + 1
    /\ tasks'[Len(tasks')].op = "fhir_create_resource"
    /\ tasks'[Len(tasks')].reqs # <<>>

\* the context is as it is before any set and after a clear
ContextUnset ==
    IF srv = "fs" THEN current_ig_context = NoContext ELSE implementation_guide_context = EmptyDict

\* the url of the ImplementationGuide held as the context
ContextUrl == IF srv = "fs" THEN current_ig_context.url ELSE implementation_guide_context.url

\* C8: a create invoked while an ImplementationGuide context is set carries a
\* profile query parameter equal to the context's url; a create invoked while
\* none is set carries no profile parameter.
C8_CreateCarriesProfile ==
    [][CreateInvoked =>
         /\ ContextUnset => tasks'[Len(tasks')].reqs[1].params = NoParams
         /\ (~ContextUnset /\ Truthy(ContextUrl)) =>
                tasks'[Len(tasks')].reqs[1].params = Put(NoParams, "profile", ContextUrl)]_vars

\* create u was invoked before set-context v, and v has written the context
SetLandedAfterCreate(u, v) ==
    /\ u < v
    /\ tasks[u].op = "fhir_create_resource"
    /\ tasks[u].reqs # <<>>
    /\ tasks[v].op = "fhir_set_implementation_guide_context"
    /\ tasks[v].pc = "done"
    /\ tasks[v].result.kind = "context_set"
    /\ Truthy(ContextUrl)

\* C9 as stated: the write of a set-context invoked after a create lands before
\* the create's read of the context, so the create sends the written url as its
\* profile.
C9_LaterWriteObserved ==
    \A u, v \in Tasks :
        SetLandedAfterCreate(u, v) =>
            tasks[u].reqs[1].params = Put(NoParams, "profile", ContextUrl)

\* C9 amended: a create reads the context in the step of its invocation
\* (fhir_server.py: the profile is the context's url at that moment;
\* fhir_mcp_server.py: no profile at all), and a step that writes the context
\* leaves the request of every create in flight as it was.
C9_ReadAtInvocation ==
    [][/\ CreateInvoked =>
            tasks'[Len(tasks')].reqs[1].params =
                IF srv = "fs" /\ Truthy(current_ig_context.url)
                THEN Put(NoParams, "profile", current_ig_context.url)
                ELSE NoParams
       /\ \A u \in Tasks :
            (/\ tasks[u].op = "fhir_create_resource"
             /\ tasks[u].pc = "await"
             /\ <<current_ig_context, implementation_guide_context>>' #
                    <<current_ig_context, implementation_guide_context>>)
                => tasks'[u] = tasks[u]]_vars

\* a set-context invoked after a create has written a url while the create's
\* POST, sent without that url, is still in flight
C9_Witness ==
    \E u, v \in Tasks :
        /\ srv = "fs"
        /\ SetLandedAfterCreate(u, v)
        /\ tasks[u].pc = "await"
        /\ tasks[u].reqs[1].params # Put(NoParams, "profile", ContextUrl)

\* a request that failed: a non-2xx status, a timeout or a refused connection
Failed(o) == o.t # "http" \/ ~IsSuccess(o.status)

\* C10: no operation retries: every request is attempted once, and after a failed
\* request the invocation sends nothing more and returns an error string.
C10_NoRetryAfterFailure ==
    \A u \in Tasks :
        /\ Len(tasks[u].resps) <= Len(tasks[u].reqs)
        /\ Len(tasks[u].reqs) <= Len(tasks[u].resps) + 1
        /\ \A i \in 1..Len(tasks[u].resps) :
              Failed(tasks[u].resps[i]) =>
                  /\ i = Len(tasks[u].resps)
                  /\ Len(tasks[u].reqs) = i
                  /\ tasks[u].pc = "done"
                  /\ tasks[u].result.err

\* C11 as stated: no tool invocation issues more than one outbound request.
C11_SingleRequest == \A u \in Tasks : Len(tasks[u].reqs) <= 1

\* C11 amended: an invocation issues at most one request, except a transform
\* without an explicit StructureMap URL, which issues at most two: the fetch of
\* the Questionnaire and then the $transform POST.
C11_OneRequestButTransform ==
    \A u \in Tasks :
        IF tasks[u].op = "fhir_transform_questionnaire_response"
              /\ strip(tasks[u].args.structure_map_url) = <<>>
        THEN /\ Len(tasks[u].reqs) <= 2
             /\ Len(tasks[u].reqs) = 2 =>
                   /\ tasks[u].reqs[1].method = "GET"
                   /\ tasks[u].reqs[1].server = "fhir"
                   /\ tasks[u].reqs[2].method = "POST"
                   /\ tasks[u].reqs[2].server = "matchbox"
        ELSE Len(tasks[u].reqs) <= 1

\* a transform has fetched the Questionnaire and sent the $transform POST
C11_Witness ==
    \E u \in Tasks :
        /\ tasks[u].op = "fhir_transform_questionnaire_response"
        /\ Len(tasks[u].reqs) = 2
        /\ Len(tasks[u].resps) = 2

\* the optional filter parameters of the list, search, apply, expand and lookup tools
FilterFields == {"status", "name", "title", "url", "version", "encounter", "practitioner",
                 "organization", "filter", "filter_text", "identifier", "birthdate"}

\* the tools whose parameters of these names are fields of the body they build
BuildOps == {"create_immunization", "create_observation", "create_patient"}

\* the query key under which a filter is sent
FilterKey(op, f) ==
    CASE f = "title" -> "title:contains"
      [] f = "name" -> IF op = "search_patients" THEN "name" ELSE "name:contains"
      [] f = "url" -> IF srv = "imm" THEN "url" ELSE "url:contains"
      [] f = "filter_text" -> "filter"
      [] OTHER -> f

\* C12: an optional filter whose value is empty or white space only is left out
\* of the query; its key is in the query exactly when the trimmed value is not
\* empty, and then carries that value.
C12_BlankFilterOmitted ==
    \A u \in Tasks :
        (tasks[u].op \notin BuildOps /\ tasks[u].reqs # <<>>) =>
            \A f \in (DOMAIN tasks[u].args) \cap FilterFields :
                LET key == FilterKey(tasks[u].op, f)
                    params == tasks[u].reqs[1].params
                IN  /\ key \in DOMAIN params <=> strip(tasks[u].args[f]) # <<>>
                    /\ key \in DOMAIN params => strip(params[key]) = strip(tasks[u].args[f])

\* a list was requested with one filter of white space only and one with a value
C12_Witness ==
    \E u \in Tasks :
        /\ tasks[u].op \in {"fhir_list_plan_definitions", "list_plan_definitions"}
        /\ tasks[u].reqs # <<>>
        /\ tasks[u].args.status = <<WS>>
        /\ tasks[u].args.title # <<>>
        /\ strip(tasks[u].args.title) # <<>>
        /\ DOMAIN tasks[u].reqs[1].params = {"_count", "title:contains"}

\* C13: a JSON value formatted in raw_json mode and parsed again is the original
\* value.
C13_RoundTrip ==
    fmt_parsed # Pending => (fmt_parsed.ok /\ fmt_parsed.val = fmt_value /\ fmt_parsed.rest = <<>>)

\* an object with a key and a string that need escaping has gone through
C13_Witness ==
    /\ fmt_parsed # Pending
    /\ fmt_value = PyDict(<<Member(<<"QUOTE">>, PyStr(<<"BACKSLASH", "n">>)),
                           Member(<<"a">>, PyStr(<<"QUOTE">>))>>)
    /\ fmt_parsed.val = fmt_value
    /\ Len(fmt_text) > 12

\* invocation u asked for json and every request it made was answered with a
\* success status and a body that is JSON (or 204)
SucceededInJson(u) ==
    /\ "response_format" \in DOMAIN tasks[u].args
    /\ tasks[u].args.response_format = "json"
    /\ tasks[u].resps # <<>>
    /\ Len(tasks[u].resps) = Len(tasks[u].reqs)
    /\ \A i \in 1..Len(tasks[u].resps) : make_fhir_request(tasks[u].resps[i]).exc = "none"

\* a read by canonical url: the tool searches and shows the first entry found
ReadByUrl(u) ==
    /\ tasks[u].op \in {"fhir_get_implementation_guide", "fhir_get_questionnaire"}
    /\ "url" \in DOMAIN tasks[u].reqs[1].params

\* C14: with response_format "json", every successful call returns the server's
\* response as JSON, also when the response is a Bundle without entries.
C14_JsonPassThrough ==
    \A u \in Tasks :
        (SucceededInJson(u) /\ ~ReadByUrl(u)) =>
            /\ tasks[u].pc = "done"
            /\ ~tasks[u].result.err
            /\ tasks[u].result.kind = "json"
            /\ tasks[u].result.doc = make_fhir_request(tasks[u].resps[Len(tasks[u].resps)]).val

\* a create whose body is not blank and is not well-formed JSON
CreateOfMalformed(u) ==
    /\ tasks[u].op = "fhir_create_resource"
    /\ tasks[u].args.resource_json.syn \in {"bad", "short"}

\* a create whose body is a well-formed JSON object without a resourceType
CreateWithoutType(u) ==
    /\ tasks[u].op = "fhir_create_resource"
    /\ tasks[u].args.resource_json.syn = "ok"
    /\ IsDict(tasks[u].args.resource_json.val)
    /\ ~Truthy(tasks[u].args.resource_json.val.resourceType)

\* invocation u returned the error of this kind without sending anything
RejectedAs(u, kind) ==
    /\ tasks[u].pc = "done"
    /\ tasks[u].result.err
    /\ tasks[u].result.kind = kind
    /\ tasks[u].reqs = <<>>

\* C15 as stated: create rejects a body that is not well-formed JSON with one
\* error, and a JSON object without resourceType with another; nothing is sent.
C15_TwoRejections ==
    \A u \in Tasks :
        /\ CreateOfMalformed(u) => RejectedAs(u, "invalid_json")
        /\ CreateWithoutType(u) => RejectedAs(u, "resourceType_required")

\* C15 amended: as stated, except that fhir_mcp_server.py's input model refuses a
\* body of fewer than two characters with its validation error before the body
\* is parsed.
C15_TwoRejectionsPastValidation ==
    \A u \in Tasks :
        /\ CreateOfMalformed(u) =>
              IF srv = "mcp" /\ tasks[u].args.resource_json.syn = "short"
              THEN RejectedAs(u, "input_validation_error")
              ELSE RejectedAs(u, "invalid_json")
        /\ CreateWithoutType(u) => RejectedAs(u, "resourceType_required")

\* fhir_mcp_server.py has answered a malformed body with the invalid-JSON error
C15_Witness ==
    \E u \in Tasks :
        /\ srv = "mcp"
        /\ CreateOfMalformed(u)
        /\ RejectedAs(u, "invalid_json")

\* the messages of the error normalizer
NormalizerKinds == {"fhir_error", "resource_not_found", "bad_request", "unprocessable_entity",
                    "conflict", "server_returned_status", "timed_out", "could_not_connect",
                    "unexpected_error"}

\* C16: the error normalizer never raises: for an HTTP status error with any
\* body, a timeout, a connection error and any other exception, the invocation
\* of fhir_mcp_server.py that hands it the exception returns one of its messages.
C16_NormalizerReturnsText ==
    \A u \in Tasks :
        (srv = "mcp" /\ tasks[u].resps # <<>>
           /\ make_fhir_request(tasks[u].resps[Len(tasks[u].resps)]).exc
                 \in {"HTTPStatusError", "TimeoutException", "ConnectError"})
            => /\ tasks[u].pc = "done"
               /\ tasks[u].result.err
               /\ tasks[u].result.kind \in NormalizerKinds

\* the normalizer was handed a status error whose body is JSON but not an object
C16_Witness ==
    \E u \in Tasks :
        /\ srv = "mcp"
        /\ tasks[u].resps # <<>>
        /\ tasks[u].resps[1].t = "http"
        /\ tasks[u].resps[1].status = 500
        /\ tasks[u].resps[1].body.syn = "ok"
        /\ ~IsDict(tasks[u].resps[1].body.val)
        /\ tasks[u].pc = "done"
        /\ tasks[u].result.kind = "server_returned_status"

\* the map URL in the Questionnaire that the first request of a transform fetched
FetchedMap(u) ==
    LET r == make_fhir_request(tasks[u].resps[1])
        questionnaire == IF tasks[u].reqs[1].params = NoParams
                         THEN r.val ELSE r.val.entry[1].resource
    IN  extract_target_structure_map(questionnaire)

\* the requests of an invocation that went to the Matchbox server
MatchboxRequests(u) == {i \in 1..Len(tasks[u].reqs) : tasks[u].reqs[i].server = "matchbox"}

\* C17: a transform with an explicit StructureMap URL sends nothing to the
\* primary server; without one it first fetches the Questionnaire from the
\* primary server and sends the $transform POST only after that fetch succeeded
\* and yielded a non-empty targetStructureMap; the POST goes to Matchbox, names
\* the resolved map, and is sent at most once.
C17_TransformOrdering ==
    \A u \in Tasks :
        tasks[u].op = "fhir_transform_questionnaire_response" =>
            LET reqs == tasks[u].reqs
                explicit == strip(tasks[u].args.structure_map_url)
                source == <<"StructureMap", "/", "$transform?source=">>
            IN  /\ Cardinality(MatchboxRequests(u)) <= 1
                /\ \A i \in 1..Len(reqs) :
                      /\ reqs[i].method = "POST" <=> reqs[i].server = "matchbox"
                      /\ reqs[i].method \in {"GET", "POST"}
                /\ explicit # <<>> =>
                      /\ \A i \in 1..Len(reqs) : reqs[i].server # "fhir"
                      /\ \A i \in MatchboxRequests(u) : reqs[i].url = source \o explicit
                /\ explicit = <<>> =>
                      \A i \in MatchboxRequests(u) :
                          /\ i = 2
                          /\ reqs[1].server = "fhir"
                          /\ make_fhir_request(tasks[u].resps[1]).exc = "none"
                          /\ FetchedMap(u) # <<>>
                          /\ reqs[2].url = source \o FetchedMap(u)

\* a transform without an explicit map URL resolved one from the fetched
\* Questionnaire and sent the $transform POST to Matchbox
C17_Witness ==
    \E u \in Tasks :
        /\ tasks[u].op = "fhir_transform_questionnaire_response"
        /\ strip(tasks[u].args.structure_map_url) = <<>>
        /\ MatchboxRequests(u) = {2}
        /\ tasks[u].reqs[1].server = "fhir"

\* this step ran code of an invocation of op: it started one or resumed one
StepOf(op) ==
    \/ /\ Len(tasks') = Len(tasks) + 1
       /\ tasks'[Len(tasks')].op = op
    \/ /\ Len(tasks') = Len(tasks)
       /\ \E u \in Tasks : /\ tasks[u].op = op
                           /\ Len(tasks'[u].resps) = Len(tasks[u].resps) + 1

\* C18: the ImplementationGuide context is changed only by the set-context
\* operation: a step in which the context changes is a step of an invocation of
\* fhir_set_implementation_guide_context; the steps of every other operation,
\* successful or failing, and the delivery of a result leave it unchanged.
C18_OnlySetContextWrites ==
    [][ (current_ig_context' # current_ig_context
           \/ implementation_guide_context' # implementation_guide_context)
        => StepOf("fhir_set_implementation_guide_context") ]_vars

\* the context is set and an operation other than set-context has run to its
\* end, having received an answer to its request
C18_Witness ==
    /\ \/ Truthy(current_ig_context.id)
       \/ implementation_guide_context # EmptyDict
    /\ \E u \in Tasks :
          /\ tasks[u].op \notin ContextOps
          /\ tasks[u].pc = "done"
          /\ tasks[u].resps # <<>>

\* the answers with an HTTP status that invocation u of fhir_server.py or
\* fhir_mcp_server.py has received
HttpAnswers(u) ==
    {i \in 1..Len(tasks[u].resps) : srv \in {"fs", "mcp"} /\ tasks[u].resps[i].t = "http"}

\* C19: for every answer an invocation received, the transport gives the success
\* marker on 204 whatever the body, the parsed body on any other 2xx whose body
\* is JSON (a body that is not JSON raises the decoding error), and raises the
\* status error on every non-2xx status; and a delete answered 204 returns its
\* success string.
C19_TransportByStatus ==
    \A u \in Tasks :
        /\ \A i \in HttpAnswers(u) :
              LET o == tasks[u].resps[i]
                  r == make_fhir_request(o)
              IN  /\ o.status = 204 => (r.exc = "none" /\ r.val = DeletedMarker)
                  /\ (o.status \in 200..299 /\ o.status # 204) =>
                        IF Loads(o.body).ok
                        THEN r.exc = "none" /\ r.val = Loads(o.body).val
                        ELSE r.exc = "JSONDecodeError"
                  /\ o.status \notin 200..299 =>
                        (r.exc = "HTTPStatusError" /\ r.status = o.status)
        /\ (HttpAnswers(u) # {} /\ tasks[u].op = "fhir_delete_resource"
              /\ tasks[u].resps[1].status = 204)
            => /\ tasks[u].pc = "done"
               /\ ~tasks[u].result.err
               /\ tasks[u].result.kind = "deleted"

\* a delete was answered 204 with an empty body and has returned
C19_Witness ==
    \E u \in Tasks :
        /\ HttpAnswers(u) # {}
        /\ tasks[u].op = "fhir_delete_resource"
        /\ tasks[u].resps[1].status = 204
        /\ ~Loads(tasks[u].resps[1].body).ok
        /\ tasks[u].pc = "done"

\* the message of its own that each of these statuses has
CategoryOf(status) ==
    IF status = 400 THEN "bad_request"
    ELSE IF status = 422 THEN "unprocessable_entity"
    ELSE "conflict"

\* invocation u was answered status 400, 422 or 409 with a body that is not an
\* OperationOutcome, and has ended
OpaqueRejection(u) ==
    /\ srv \in {"fs", "mcp"}
    /\ tasks[u].resps # <<>>
    /\ tasks[u].pc # "await"
    /\ LET o == tasks[u].resps[Len(tasks[u].resps)]
       IN  /\ o.t = "http"
           /\ o.status \in {400, 422, 409}
           /\ ~(Loads(o.body).ok /\ IsDict(Loads(o.body).val)
                  /\ Loads(o.body).val.resourceType = <<"OperationOutcome">>)

\* C20: an answer of status 400, 422 or 409 whose body is not an
\* OperationOutcome yields the message of that status's category, and the
\* message carries the raw body (the bodies here are shorter than the 500
\* characters the excerpt is cut at).
C20_CategoryWithExcerpt ==
    \A u \in Tasks :
        OpaqueRejection(u) =>
            LET o == tasks[u].resps[Len(tasks[u].resps)]
            IN  /\ tasks[u].pc = "done"
                /\ tasks[u].result.err
                /\ tasks[u].result.kind = CategoryOf(o.status)
                /\ tasks[u].result.text = o.body

\* the message the specification gives an issue: its diagnostics, else the text
\* of its details, else "Unknown error"
DisplayedMessage(issue) ==
    IF issue.diagnostics # Absent THEN issue.diagnostics
    ELSE IF issue.detailsText # Absent THEN issue.detailsText
    ELSE <<"Unknown error">>

\* invocation u of create, update, apply or transform has ended on a non-success
\* answer whose body is an OperationOutcome with issues
EndedOnOutcome(u) ==
    /\ tasks[u].op \in OutcomeOps
    /\ tasks[u].pc = "done"
    /\ tasks[u].resps # <<>>
    /\ LET o == tasks[u].resps[Len(tasks[u].resps)]
       IN  /\ o.t = "http"
           /\ ~IsSuccess(o.status)
           /\ Loads(o.body).ok
           /\ IsDict(Loads(o.body).val)
           /\ Loads(o.body).val.resourceType = <<"OperationOutcome">>
           /\ Loads(o.body).val.issue # <<>>

\* C21: in create, update, apply and transform the message displayed for each
\* issue of an OperationOutcome error body is the issue's diagnostics when
\* present, otherwise its details.text when present, otherwise "Unknown error".
C21_MessageFallsBack ==
    \A u \in Tasks :
        EndedOnOutcome(u) =>
            LET issues == Loads(tasks[u].resps[Len(tasks[u].resps)].body).val.issue
            IN  /\ Len(tasks[u].result.lines) = Len(issues)
                /\ \A i \in 1..Len(issues) :
                      tasks[u].result.lines[i].msg = DisplayedMessage(issues[i])

ExpandOps == {"fhir_expand_valueset", "expand_valueset"}

\* the path p as the variant writes it: fhir_immunization_server.py has a leading "/"
PathIs(url, p) == url = p \/ url = <<"/">> \o p

\* C22: expand ValueSet with id and URL both blank returns an error and sends no
\* request; with only an id it sends one GET of ValueSet/<id>/$expand without a
\* url parameter; with only a URL it sends one GET of ValueSet/$expand with
\* url=<URL>; whenever it is accepted it sends exactly one request.
C22_ExpandByIdOrUrl ==
    \A u \in Tasks :
        tasks[u].op \in ExpandOps =>
            LET id == tasks[u].args.valueset_id
                url == tasks[u].args.valueset_url
                reqs == tasks[u].reqs
            IN  /\ (strip(id) = <<>> /\ strip(url) = <<>>) =>
                      /\ reqs = <<>>
                      /\ tasks[u].pc = "done"
                      /\ tasks[u].result.err
                /\ (strip(id) # <<>> \/ strip(url) # <<>>) =>
                      /\ Len(reqs) = 1
                      /\ reqs[1].method = "GET"
                      /\ reqs[1].server = "fhir"
                /\ (strip(id) # <<>> /\ strip(url) = <<>>) =>
                      /\ \E x \in {id, strip(id)} :
                            PathIs(reqs[1].url, <<"ValueSet", "/">> \o x \o <<"/", "$expand">>)
                      /\ "url" \notin DOMAIN reqs[1].params
                /\ (strip(id) = <<>> /\ strip(url) # <<>>) =>
                      /\ PathIs(reqs[1].url, <<"ValueSet", "/", "$expand">>)
                      /\ "url" \in DOMAIN reqs[1].params
                      /\ reqs[1].params["url"] \in {url, strip(url)}

\* an expansion by id alone and answered, the id given with trailing white space
C22_Witness ==
    \E u \in Tasks :
        /\ tasks[u].op \in ExpandOps
        /\ tasks[u].args.valueset_id = <<"42", WS>>
        /\ strip(tasks[u].args.valueset_url) = <<>>
        /\ Len(tasks[u].reqs) = 1
        /\ tasks[u].resps # <<>>

\* C23: the summary of a Bundle with k entries has exactly min(k, 20) entry
\* lines, in entry order, a "... and N more" trailer if and only if k > 20, with
\* N = k - 20, and reports as total Bundle.total when present and k otherwise.
C23_CappedAtTwenty ==
    (fmt_text # <<>> /\ fmt_text.kind = "search_results") =>
        LET k == Len(fmt_value.entry)
            shown == IF k < 20 THEN k ELSE 20
        IN  /\ Len(fmt_text.lines) = shown
            /\ \A i \in 1..Len(fmt_text.lines) : fmt_text.lines[i].id = fmt_value.entry[i].id
            /\ fmt_text.trailer # NoNumber <=> k > 20
            /\ k > 20 => fmt_text.trailer = k - 20
            /\ fmt_text.total = (IF fmt_value.total # NoNumber THEN fmt_value.total ELSE k)

\* the query parameters of the POST that create u of fhir_server.py sent
PostParams(u) == tasks[u].reqs[1].params

\* C24: in fhir_server.py the profile of a create's POST is the context url at
\* the moment of the create's invocation (no profile when that url is empty),
\* and from then on no step, the landing of a set-context's write included,
\* changes that POST; the result of the create is made of the resource it sent
\* and the answer it received.
C24_ProfileFixedAtInvocation ==
    [][srv = "fs" =>
         /\ CreateInvoked =>
               /\ Truthy(current_ig_context.url) =>
                     tasks'[Len(tasks')].reqs[1].params = ("profile" :> current_ig_context.url)
               /\ ~Truthy(current_ig_context.url) =>
                     DOMAIN tasks'[Len(tasks')].reqs[1].params = {}
         /\ \A u \in Tasks :
               (/\ tasks[u].op = "fhir_create_resource"
                /\ tasks[u].pc = "await"
                /\ Len(tasks') >= Len(tasks))
                  => /\ tasks'[u].reqs = tasks[u].reqs
                     /\ tasks'[u].result.kind = "created" =>
                           /\ tasks'[u].result.doc = make_fhir_request(tasks'[u].resps[1]).val
                           /\ tasks'[u].result.parts[1] = tasks[u].reqs[1].data.resourceType]_vars

\* a create of fhir_server.py has succeeded with a POST that carries no profile
\* although the context now has a url: the context was written while the POST
\* was in flight
C24_Witness ==
    \E u \in Tasks :
        /\ srv = "fs"
        /\ tasks[u].op = "fhir_create_resource"
        /\ tasks[u].pc = "done"
        /\ tasks[u].result.kind = "created"
        /\ DOMAIN PostParams(u) = {}
        /\ Truthy(current_ig_context.url)

SetOp == "fhir_set_implementation_guide_context"

\* set-context u has returned its success message
SetSucceeded(u) ==
    /\ tasks[u].op = SetOp
    /\ tasks[u].pc = "done"
    /\ tasks[u].result.kind = "context_set"

\* the ImplementationGuide in the answer that set-context u received: the
\* resource read by id, or the first entry of the search by url
AnsweredGuide(u) ==
    LET r == make_fhir_request(tasks[u].resps[1])
    IN  IF tasks[u].reqs[1].params = NoParams THEN r.val ELSE r.val.entry[1].resource

\* the context that holds the ImplementationGuide ig
ContextHolding(ig) == IF srv = "fs" THEN current_ig_context = ContextOf(ig)
                      ELSE implementation_guide_context = ig

\* C25: when set-context invocations overlap, the context is that of the
\* invocation whose answer was processed last: whenever a set-context has just
\* succeeded the context holds the ImplementationGuide of its answer, whether
\* the other set-context, still in flight or already completed, was invoked
\* before it or after it.
C25_LastProcessedWins ==
    \A u \in Tasks :
        SetSucceeded(u) => ContextHolding(AnsweredGuide(u))

\* the set-context invoked second has succeeded first, while the one invoked
\* first, with other arguments, is still in flight
C25_Witness ==
    /\ Len(tasks) = 2
    /\ tasks[1].op = SetOp
    /\ tasks[1].pc = "await"
    /\ SetSucceeded(2)
    /\ tasks[1].args # tasks[2].args

\* in this step a set-context invocation returns an error string: it is refused
\* on invocation, or it is resumed with its answer and fails
SetReturnsError ==
    \/ /\ Len(tasks') = Len(tasks) + 1
       /\ tasks'[Len(tasks')].op = SetOp
       /\ tasks'[Len(tasks')].pc = "done"
       /\ tasks'[Len(tasks')].result.err
    \/ /\ Len(tasks') = Len(tasks)
       /\ \E u \in Tasks : /\ tasks[u].op = SetOp
                           /\ tasks[u].pc = "await"
                           /\ tasks'[u].pc = "done"
                           /\ tasks'[u].result.err

\* C26: the step in which a set-context invocation returns an error string
\* leaves the context exactly as it was.
C26_ErrorLeavesContext ==
    [][SetReturnsError =>
          /\ current_ig_context' = current_ig_context
          /\ implementation_guide_context' = implementation_guide_context]_vars

GetOp == "fhir_get_current_implementation_guide_context"

\* what get-current-context returns when invoked in this state
ReportNow ==
    IF srv = "fs" THEN fs_context_report(current_ig_context)
    ELSE mcp_context_report(GetOp, implementation_guide_context).result

\* C27: once a set-context has returned its success message, and until another
\* set-context writes, get-current-context reports the context that was set (the
\* id, name and url of the success message) and never that no context is set,
\* whatever ImplementationGuide the server answered with.
C27_SetThenReported ==
    \A u \in Tasks :
        SetSucceeded(u) =>
            /\ ReportNow.kind = "current_context"
            /\ ReportNow.parts = tasks[u].result.parts

\* C28: in fhir_server.py, in every state in which get-current-context reports
\* that no context is set, a create invoked in that state attaches no profile
\* parameter to its POST.
C28_ReportAndCreateAgree ==
    [][(srv = "fs" /\ CreateInvoked
          /\ fs_context_report(current_ig_context).kind = "no_context_set")
        => DOMAIN tasks'[Len(tasks')].reqs[1].params = {}]_vars

\* C29: every invocation eventually ends, exactly once, provided each request
\* it awaits completes.  Invocations keep their order: while none has ended,
\* each suspended one stays in its slot as the same invocation, and one that
\* has ended is handed to the client in the next step, once, which moves the
\* younger ones one slot forward.  No slot holds a suspended invocation for
\* ever unless older invocations keep returning in front of it; as a slot is
\* only ever left forward, every suspended invocation ends.
C29_EveryInvocationReturns ==
    /\ \A n \in Slots :
          \/ []<>(~(n \in Tasks /\ tasks[n].pc = "await"))
          \/ []<><<\E u \in 1..(n - 1) : Deliver(u)>>_vars
    /\ [][\A u \in Tasks :
            tasks[u].pc \in {"done", "raised"} =>
                tasks' = SubSeq(tasks, 1, u - 1) \o SubSeq(tasks, u + 1, Len(tasks))]_vars
    /\ [][~Undelivered =>
            \A u \in Tasks :
                /\ u <= Len(tasks')
                /\ tasks'[u].op = tasks[u].op
                /\ tasks'[u].args = tasks[u].args
                /\ \/ tasks'[u] = tasks[u]
                   \/ Len(tasks'[u].resps) = Len(tasks[u].resps) + 1]_vars

\* a transform has ended after both of its requests were answered
C29_Witness ==
    \E u \in Tasks :
        /\ tasks[u].op = "fhir_transform_questionnaire_response"
        /\ Len(tasks[u].resps) = 2
        /\ tasks[u].pc = "done"
        /\ ~tasks[u].result.err

\* C30: the N of the trailer "... and N more resource types" of
\* get_server_capability is the number of supported resources that the output
\* does not list, and is never negative.
C30_TrailerCountsUnlisted ==
    (fmt_text # <<>> /\ fmt_text.has_resources) =>
        /\ fmt_text.more = fmt_text.supported - Len(fmt_text.listed)
        /\ fmt_text.more >= 0

====
